---- MODULE Spec2Model ----
(***************************************************************************)
(* Model of the novel-processor analysis pipeline.                         *)
(*                                                                         *)
(* Two variants of the analyzer live in the repository:                    *)
(*   "analyzeChunks" : src/packages/novel-processor/src/analyzer.ts        *)
(*                     discovery through runInParallel, then extraction in *)
(*                     batches of `concurrency` awaited with Promise.all   *)
(*   "run"           : src/packages/novel-processor/src/modules/analyzer.ts*)
(*                     extraction through runInParallel, then one entity   *)
(*                     resolution call                                     *)
(* The JavaScript event loop is single threaded: everything a promise      *)
(* continuation does up to its next await is one atomic action here.       *)
(***************************************************************************)
EXTENDS Integers, Sequences, FiniteSets, TLC

\* ---------------------------------------------------------------- bounds
MaxChunks == 3
MaxConc == 3

\* ---------------------------------------------------------------- values
Variants == {"analyzeChunks", "run"}

\* An empty array slot / a missing object.
Undefined == [undefined |-> TRUE]
\* A missing optional string argument (previousSummary?: string).
NoSummary == "undefined"
\* The generation capability failed (llm.structured threw).
Failure == [failure |-> TRUE]

\* loadCachedAnalysis: no cache file for the chunk, or the analysis saved by
\* an earlier run.
Null == [null |-> TRUE]

CachedAnalysis == [summary |-> "cached", discovered |-> <<>>]

\* What the generation capability may answer to an extraction / HAR call:
\* a ChunkAnalysis, reduced to the fields the orchestration reads.
AnalysisVals ==
    { [summary |-> "s1", discovered |-> <<>>],
      [summary |-> "s2", discovered |-> << [name |-> "n1", description |-> "d1"] >>] }

\* What it may answer to a discovery call (result.characters, names only).
DiscoveryVals == { [characters |-> << "n1" >>], [characters |-> << "n2", "n1" >>] }

\* What it may answer to the entity resolution call.
ResolutionVals == { [characters |-> << "CHAR_001" >>] }

Min(a, b) == IF a < b THEN a ELSE b

Max(a, b) == IF a > b THEN a ELSE b

\* chunk.content of chunk i, kept symbolic.
Content(i) == [chunk |-> i]

VARIABLES
    variant,          \* which analyzer runs
    nChunks,          \* allChunks.length
    limit,            \* options.limit
    concurrency,      \* options.concurrency
    onProgress,       \* options.onProgress is given
    cachedAnalyses,   \* demo: what loadCachedAnalysis returned for each chunk
    stage,            \* position of the pipeline's async function
    nTasks,           \* tasks.length of the runInParallel call
    cursor,           \* runInParallel: currentIndex / current
    wpc,              \* runInParallel: position of each worker
    widx,             \* runInParallel: the index each worker awaits
    results,          \* runInParallel: the results array
    promise,          \* runInParallel: state of Promise.all(workers)
    dispatched,       \* history: the indices in the order tasks were started
    dpc,              \* discovery task of chunk i: position
    dret,             \* discovery task of chunk i: the value it returned
    xpc,              \* extraction task of chunk i: position
    prevArg,          \* extraction of chunk i: previousSummary it was given
    charsArg,         \* extraction of chunk i: the character registry it was given
    harArg,           \* extraction of chunk i: arguments of the HAR call
    ncalls,           \* extraction of chunk i: generation calls issued
    ret,              \* extraction task of chunk i: the value it returned
    llmOut,           \* history: what the two calls of chunk i answered
    batchBase,        \* analyzeChunks: loop variable i of the batch loop
    analyses,         \* analyzeChunks: results / run: analyses
    globalCharacters, \* discovered names / resolved characters
    progress,         \* history: the calls of onProgress, in order
    hung,             \* the generation calls that will never answer
    requests,         \* history: the aggregated inputs sent for resolution
    rawDiscovered,    \* resolveEntities: the mentions it is called with
    rpc,              \* resolveEntities: position of its caller
    resolved,         \* resolveEntities: what each call returned
    designChars,      \* CharacterDesigner.run: the characters it is called with
    designState,      \* CharacterDesigner.run: state of Promise.all(tasks)
    designPc,         \* CharacterDesigner.run: position of each task
    designOut,        \* CharacterDesigner.run: the value each task returned
    designOrder,      \* history: the tasks in the order they returned
    designed,         \* CharacterDesigner.run: the array it returned
    chunker,          \* chunker: which TokenChunker is called
    text,             \* chunker: the text handed to chunk()
    maxTokens,        \* chunker: this.maxTokens
    overlapTokens,    \* chunker: this.overlapTokens
    cpc,              \* chunker: position of the caller of chunk()
    textChunks,       \* chunker: the chunks chunk() returned
    buffers,          \* history: the buffer behind every chunk pushed
    mpc,              \* merge stage: position of the caller of mergeAnalyses
    mergeInput,       \* merge stage: the analyses handed to mergeAnalyses
    rawMerged,        \* merge stage: what mergeAnalyses returned
    eventIdMap,       \* merge stage: the map consolidatePlotGraph returned
    merged,           \* merge stage: the final graph
    warnings          \* merge stage: the warnings mergeAnalyses recorded

schedVars == << nTasks, cursor, wpc, widx, results, promise, dispatched >>

chunkerVars == << chunker, text, maxTokens, overlapTokens, cpc, textChunks, buffers >>

\* What the analysis and the merge are given and never change.
\* What a direct call of resolveEntities reads and writes.
resolveVars == << rawDiscovered, rpc, resolved >>

\* What a direct call of CharacterDesigner.run reads and writes.
designVars == << designChars, designState, designPc, designOut, designOrder, designed >>

inputVars == << variant, nChunks, limit, concurrency, onProgress, cachedAnalyses,
               chunkerVars, resolveVars, designVars >>

taskVars == << dpc, dret, xpc, prevArg, charsArg, harArg, ncalls, ret >>

pipelineVars == << stage, schedVars, taskVars, llmOut, batchBase, analyses,
                  globalCharacters, progress, hung, requests >>

mergeVars == << mpc, mergeInput, rawMerged, eventIdMap, merged, warnings >>

vars == << inputVars, pipelineVars, mergeVars >>

\* chunksToAnalyze.length: allChunks.slice(0, limit).length
SliceLen(n, lim) == Min(Max(lim, 0), n)

NumToAnalyze == SliceLen(nChunks, limit)

Chunks == 0 .. (nChunks - 1)

\* ------------------------------------------------------- runInParallel
\* The scheduler's local state as one value, so that a whole continuation
\* (store, loop test, next dispatch, Promise.all settling) is one step.
Sched ==
    [ n |-> nTasks, cursor |-> cursor, wpc |-> wpc, widx |-> widx,
      results |-> results, promise |-> promise, dispatched |-> dispatched ]

\* Mutation of WorkerCount: one worker per task, the ceiling ignored.
WorkerCountUnbounded(c, n) == n

\* Math.min(concurrency, tasks.length) as the length of Array.from: a
\* length below 0 gives an empty array.
WorkerCount(c, n) == Max(Min(c, n), 0)

\* Mutation of TakeIndex: ++currentIndex, the cursor read after the increment.
TakeIndexPreIncrement(c) == c + 1

\* const index = currentIndex++ : the value read ...
TakeIndex(c) == c

\* ... and the value left in the cursor.
Advance(c) == c + 1

\* Mutation of StoreResult: results.push(value), completion order.
StoreInCompletionOrder(r, index, v) ==
    IF \E k \in DOMAIN r : r[k] = Undefined
    THEN [r EXCEPT ![CHOOSE k \in DOMAIN r :
                        r[k] = Undefined /\ \A m \in DOMAIN r : r[m] = Undefined => k <= m] = v]
    ELSE r

\* results[index] = <value>
StoreResult(r, index, v) == [r EXCEPT ![index] = v]

\* Mutation of WorkerLoop: `if` for `while`, a worker runs one task and returns.
WorkerLoopOnce(s, w) ==
    IF s.cursor < s.n /\ s.wpc[w] = "new"
    THEN LET index == TakeIndex(s.cursor)
         IN  [s EXCEPT !.cursor = Advance(s.cursor),
                       !.wpc[w] = "await",
                       !.widx[w] = index,
                       !.dispatched = Append(s.dispatched, index)]
    ELSE [s EXCEPT !.wpc[w] = "done"]

\* One evaluation of the worker loop by worker w: test the cursor, take the
\* next index and start its task (the worker then awaits it), or finish.
WorkerLoop(s, w) ==
    IF s.cursor < s.n
    THEN LET index == TakeIndex(s.cursor)
         IN  [s EXCEPT !.cursor = Advance(s.cursor),
                       !.wpc[w] = "await",
                       !.widx[w] = index,
                       !.dispatched = Append(s.dispatched, index)]
    ELSE [s EXCEPT !.wpc[w] = "done"]

\* Array.from({length: k}, () => worker()): the workers are created one after
\* the other, each running synchronously up to its first await.
RECURSIVE SpawnWorkers(_, _, _)
SpawnWorkers(s, w, k) ==
    IF w > k THEN s ELSE SpawnWorkers(WorkerLoop(s, w), w + 1, k)

\* Mutation of PromiseAll: Promise.all of no worker stays pending.
PromiseAllOfSome(s) ==
    IF s.promise # "pending" THEN s.promise
    ELSE IF \E w \in DOMAIN s.wpc : s.wpc[w] = "rejected" THEN "rejected"
    ELSE IF s.wpc # << >> /\ \A w \in DOMAIN s.wpc : s.wpc[w] = "done" THEN "resolved"
    ELSE "pending"

\* Promise.all(workers): rejected by the first rejected worker, resolved
\* once every worker has returned; a settled promise never changes.
PromiseAll(s) ==
    IF s.promise # "pending" THEN s.promise
    ELSE IF \E w \in DOMAIN s.wpc : s.wpc[w] = "rejected" THEN "rejected"
    ELSE IF \A w \in DOMAIN s.wpc : s.wpc[w] = "done" THEN "resolved"
    ELSE "pending"

\* runInParallel(tasks, concurrency) up to `await Promise.all(workers)`.
RunInParallel(n, c) ==
    LET k  == WorkerCount(c, n)
        s0 == [ n |-> n, cursor |-> 0,
                wpc |-> [w \in 1 .. k |-> "new"],
                widx |-> [w \in 1 .. k |-> 0],
                results |-> [i \in 0 .. (n - 1) |-> Undefined],
                promise |-> "pending",
                dispatched |-> << >> ]
        s1 == SpawnWorkers(s0, 1, k)
    IN  [s1 EXCEPT !.promise = PromiseAll(s1)]

\* The task awaited by worker w settled: with a value (stored, then the loop
\* goes round) or with an error (the worker's promise rejects).
Resume(s, w, v) ==
    LET s1 == IF v = Failure
              THEN [s EXCEPT !.wpc[w] = "rejected"]
              ELSE WorkerLoop([s EXCEPT !.results = StoreResult(s.results, s.widx[w], v)], w)
    IN  [s1 EXCEPT !.promise = PromiseAll(s1)]

\* The worker awaiting task i.
WorkerOf(i) == CHOOSE w \in DOMAIN wpc : wpc[w] = "await" /\ widx[w] = i

\* The indices whose task a scheduler step started.
Started(s) ==
    { s.dispatched[k] : k \in (Len(dispatched) + 1) .. Len(s.dispatched) }

SetSched(s) ==
    /\ nTasks' = s.n
    /\ cursor' = s.cursor
    /\ wpc' = s.wpc
    /\ widx' = s.widx
    /\ results' = s.results
    /\ promise' = s.promise
    /\ dispatched' = s.dispatched

\* ------------------------------------------------- one chunk's extraction
\* extractChunkParallel / extractCharacterEvents: two generation calls.
X == [ xpc |-> xpc, prevArg |-> prevArg, charsArg |-> charsArg, harArg |-> harArg,
       ncalls |-> ncalls, ret |-> ret ]

\* The arguments of the corrective (HAR) call: the chunk's text and the
\* first call's result.
HarArgs(i, initialAnalysis) == [text |-> Content(i), analysis |-> initialAnalysis]

\* Mutation of ExtractReturn: the uncorrected first result is returned.
ExtractReturnInitial(initialAnalysis, refinedAnalysis) == initialAnalysis

\* What the extraction resolves with: `return refined`.
ExtractReturn(initialAnalysis, refinedAnalysis) == refinedAnalysis

\* Mutation of TaskValue: every closure returns the index of the first chunk.
TaskValueFirstIndex(i, analysis) == [index |-> 0, analysis |-> analysis]

\* What the task closure returns: { index: i, analysis }.
TaskValue(i, analysis) == [index |-> i, analysis |-> analysis]

\* The globalCharacters argument of an extraction: extractCharacterEvents is
\* handed the list, extractChunkParallel has no such parameter.
Registry(chars) == [given |-> TRUE, characters |-> chars]

NoRegistry == [given |-> FALSE]

\* The tasks of the indices in S are invoked: each runs synchronously up to
\* its first await, the initial extraction call, with previous summary p[i]
\* and the registry g.
XStart(x, S, p, g) ==
    [x EXCEPT !.xpc = [i \in DOMAIN x.xpc |-> IF i \in S THEN "call1" ELSE x.xpc[i]],
              !.prevArg = [i \in DOMAIN x.xpc |-> IF i \in S THEN p[i] ELSE x.prevArg[i]],
              !.charsArg = [i \in DOMAIN x.xpc |-> IF i \in S THEN g ELSE x.charsArg[i]],
              !.ncalls = [i \in DOMAIN x.xpc |-> IF i \in S THEN x.ncalls[i] + 1 ELSE x.ncalls[i]]]

\* The initial extraction call of chunk i answered v: on an error the await
\* throws and the task rejects, otherwise the corrective call is issued.
XInitialReturn(x, i, v) ==
    IF v = Failure
    THEN [x EXCEPT !.xpc[i] = "failed"]
    ELSE [x EXCEPT !.xpc[i] = "call2",
                   !.harArg[i] = HarArgs(i, v),
                   !.ncalls[i] = x.ncalls[i] + 1]

\* The corrective call of chunk i answered v: the task returns.
XRefinedReturn(x, i, v) ==
    IF v = Failure
    THEN [x EXCEPT !.xpc[i] = "failed"]
    ELSE [x EXCEPT !.xpc[i] = "done",
                   !.ret[i] = TaskValue(i, ExtractReturn(x.harArg[i].analysis, v))]

\* How the task of chunk i settled.
Outcome(x, i) == IF x.xpc[i] = "failed" THEN Failure ELSE x.ret[i]

SetX(x) ==
    /\ xpc' = x.xpc
    /\ prevArg' = x.prevArg
    /\ charsArg' = x.charsArg
    /\ harArg' = x.harArg
    /\ ncalls' = x.ncalls
    /\ ret' = x.ret

NoPrevious == [i \in Chunks |-> NoSummary]

\* ------------------------------------------------------- resolveEntities
\* descriptions: Array.from(descSet).slice(0, 5)
SampleSize == 5

\* Mutation of SampleStart: the sample moves on with every request sent.
SampleStartRotating == Len(requests)

\* First index of the sample kept of a bucket's descriptions: slice(0, ...)
SampleStart == 0

\* Mutation of SetAdd: Array.prototype.push, a value is kept every time.
ArrayPush(set, v) == Append(set, v)

\* Set.prototype.add on a Set kept as its values in insertion order.
SetAdd(set, v) == IF \E k \in DOMAIN set : set[k] = v THEN set ELSE Append(set, v)

\* nameMap after `for (const item of rawDiscovered)`: a Map kept as its
\* entries in insertion order, from a name to the Set of its descriptions.
RECURSIVE NameMap(_)
NameMap(raw) ==
    IF raw = << >> THEN << >>
    ELSE LET front == NameMap(SubSeq(raw, 1, Len(raw) - 1))
             item  == raw[Len(raw)]
             known == \E k \in DOMAIN front : front[k].key = item.name
             map   == IF known THEN front
                      ELSE Append(front, [key |-> item.name, value |-> << >>])
         IN  [k \in DOMAIN map |->
                 IF map[k].key = item.name
                 THEN [key |-> item.name, value |-> SetAdd(map[k].value, item.description)]
                 ELSE map[k]]

\* Array.prototype.slice(start, end) for 0 <= start <= end.
Slice(a, start, end) == SubSeq(a, start + 1, Min(end, Len(a)))

\* aggregatedInputs: one { name, descriptions } per entry of nameMap.
AggregatedInputs(raw) ==
    LET nameMap == NameMap(raw)
    IN  [k \in DOMAIN nameMap |->
            [name |-> nameMap[k].key,
             descriptions |-> Slice(nameMap[k].value, SampleStart, SampleStart + SampleSize)]]

\* ------------------------------------------------------------- onProgress
\* One call onProgress(stage, current, total).
Report(s, current, total) == [stage |-> s, current |-> current, total |-> total]

\* onProgress?.(...): the calls are made when the option is given.
Reported(p, calls) == IF onProgress THEN p \o calls ELSE p

\* The call a task closure makes when the work of chunk i is done.
TaskCall(s, i, total) == << Report(s, i + 1, total) >>

\* The calls of the analyzer's own continuation in the step that takes it
\* from one stage to the next: after the discovery (analyzeChunks) or around
\* resolveEntities (run).
ContinuationCalls ==
    IF variant = "run"
    THEN IF stage \in {"init", "mapping"} /\ stage' = "resolution"
         THEN << Report("Entity Resolution", 0, 1) >>
         ELSE IF stage \in {"init", "mapping"} /\ stage' = "done"
         THEN << Report("Entity Resolution", 0, 1), Report("Entity Resolution", 1, 1) >>
         ELSE IF stage = "resolution" /\ stage' = "done"
         THEN << Report("Entity Resolution", 1, 1) >>
         ELSE << >>
    ELSE IF stage \in {"init", "discovery"} /\ stage' \in {"extraction", "done"}
         THEN << Report("Discovery", nChunks, nChunks),
                 Report("CEE (Extraction & HAR)", 0, NumToAnalyze) >>
         ELSE << >>

\* ------------------------------------------------------- calls that hang
\* The generation call in flight for chunk i, and the resolution call.
CallOf(i) == "chunk " \o ToString(i)

ResolutionCall == "resolution"

\* ------------------------------------------------------------ run (modules)
\* for (const res of mapResultsRaw) analyses[res.index] = res.analysis
AssignByIndex(raw, n) ==
    [j \in 0 .. (n - 1) |->
        IF \E k \in DOMAIN raw : raw[k].index = j
        THEN raw[CHOOSE k \in DOMAIN raw :
                    /\ raw[k].index = j
                    /\ \A m \in DOMAIN raw : raw[m].index = j => m <= k].analysis
        ELSE Undefined]

\* allDiscoveredRaw: the discovered characters of every result, in order.
RECURSIVE ConcatDiscovered(_, _, _)
RECURSIVE ConcatDiscoveredNewestFirst(_, _, _)
\* Mutation of ConcatDiscovered: mentions.concat(allDiscoveredRaw), each
\* result's mentions put in front of those collected so far.
ConcatDiscoveredNewestFirst(raw, k, n) ==
    IF k >= n THEN << >>
    ELSE ConcatDiscoveredNewestFirst(raw, k + 1, n) \o raw[k].analysis.discovered

ConcatDiscovered(raw, k, n) ==
    IF k >= n THEN << >>
    ELSE raw[k].analysis.discovered \o ConcatDiscovered(raw, k + 1, n)

\* Mutation of ResolutionRequests: resolveEntities without its early return,
\* the request is sent whenever the mapping has ended.
ResolutionRequestsAlways ==
    IF variant = "run" /\ stage \in {"init", "mapping"} /\ stage' \in {"resolution", "done"}
    THEN << AggregatedInputs(ConcatDiscovered(results', 0, nTasks')) >>
    ELSE << >>

\* The request run() sends in the step that takes it to the resolution:
\* resolveEntities(allDiscoveredRaw) with a mention to resolve.
ResolutionRequests ==
    IF variant = "run" /\ stage \in {"init", "mapping"} /\ stage' = "resolution"
    THEN << AggregatedInputs(ConcatDiscovered(results', 0, nTasks')) >>
    ELSE << >>

\* The continuation of run() after `await this.runInParallel(...)`.
AfterMapping(s) ==
    IF \E k \in DOMAIN s.results : s.results[k] = Undefined
    THEN \* res.index of an empty slot: a TypeError rejects run()
         /\ stage' = "failed"
         /\ UNCHANGED << analyses, globalCharacters >>
    ELSE /\ analyses' = AssignByIndex(s.results, s.n)
         /\ IF ConcatDiscovered(s.results, 0, s.n) = << >>
            THEN stage' = "done" /\ globalCharacters' = << >>
            ELSE stage' = "resolution" /\ UNCHANGED globalCharacters

\* NovelAnalyzer.run up to its first suspension.
StartRun ==
    LET s == RunInParallel(NumToAnalyze, concurrency)
    IN  /\ SetSched(s)
        /\ SetX(XStart(X, Started(s), NoPrevious, NoRegistry))
        /\ IF s.promise = "resolved"
           THEN AfterMapping(s)
           ELSE /\ stage' = "mapping"
                /\ analyses' = [i \in 0 .. (NumToAnalyze - 1) |-> Undefined]
                /\ UNCHANGED globalCharacters
        /\ UNCHANGED << inputVars, dpc, dret, batchBase >>

\* The extraction task of chunk i settled under runInParallel.
RunTaskSettled(x, i) ==
    LET s == Resume(Sched, WorkerOf(i), Outcome(x, i))
    IN  /\ SetSched(s)
        /\ SetX(XStart(x, Started(s), NoPrevious, NoRegistry))
        /\ IF promise = "pending" /\ s.promise = "resolved"
           THEN AfterMapping(s)
           ELSE IF promise = "pending" /\ s.promise = "rejected"
           THEN stage' = "failed" /\ UNCHANGED << analyses, globalCharacters >>
           ELSE UNCHANGED << stage, analyses, globalCharacters >>
        /\ UNCHANGED << inputVars, dpc, dret, batchBase >>

\* The entity resolution call answered.
ResolutionReturn(v) ==
    /\ stage = "resolution"
    /\ ResolutionCall \notin hung
    /\ IF v = Failure
       THEN stage' = "failed" /\ UNCHANGED globalCharacters
       ELSE stage' = "done" /\ globalCharacters' = v.characters
    /\ progress' = Reported(progress, ContinuationCalls)
    /\ UNCHANGED << inputVars, schedVars, taskVars, llmOut, batchBase, analyses, hung,
                    requests >>
    /\ UNCHANGED mergeVars

\* ------------------------------------------------ analyzeChunks (analyzer.ts)
\* Array.from(uniqueNames): the names in order of first insertion.
Unique(names) ==
    LET firsts == { k \in DOMAIN names : \A j \in 1 .. (k - 1) : names[j] # names[k] }
    IN  [p \in 1 .. Cardinality(firsts) |->
            names[CHOOSE k \in firsts : Cardinality({ j \in firsts : j < k }) = p - 1]]

RECURSIVE ConcatNames(_, _, _)
ConcatNames(lists, k, n) ==
    IF k >= n THEN << >>
    ELSE lists[k].characters \o ConcatNames(lists, k + 1, n)

\* Mutation of BatchIndices: slice(i, i + concurrency + 1), one index too many.
BatchIndicesInclusive(base, c, len) ==
    { i \in 0 .. (len - 1) : base <= i /\ i <= base + c }

\* extractionTasks.slice(i, i + concurrency): the indices of one batch.
BatchIndices(base, c, len) == { i \in 0 .. (len - 1) : base <= i /\ i < base + c }

\* Mutation of PreviousSummary: the summary of the chunk two places before.
PreviousSummaryTwoBack(an, i) ==
    IF i > 1
    THEN IF an[i - 2] = Undefined THEN NoSummary ELSE an[i - 2].summary
    ELSE NoSummary

\* i > 0 ? results[i - 1]?.summary : undefined, read when the task is invoked.
PreviousSummary(an, i) ==
    IF i > 0
    THEN IF an[i - 1] = Undefined THEN NoSummary ELSE an[i - 1].summary
    ELSE NoSummary

\* One round of the batch loop from `i < extractionTasks.length` on: invoke
\* every task of the batch (Promise.all), or leave the loop and return.
BatchLoop(x, base, an, chars) ==
    IF base < NumToAnalyze
    THEN /\ stage' = "extraction"
         /\ SetX(XStart(x, BatchIndices(base, concurrency, NumToAnalyze),
                        [i \in Chunks |-> PreviousSummary(an, i)], Registry(chars)))
    ELSE /\ stage' = "done"
         /\ SetX(x)

\* The continuation of analyzeChunks after discoverGlobalContext's
\* `await this.runInParallel(...)`.
AfterDiscovery(s) ==
    IF \E k \in DOMAIN s.results : s.results[k] = Undefined
    THEN \* `for (const char of list)` over an empty slot: a TypeError
         /\ stage' = "failed"
         /\ SetX(X)
         /\ UNCHANGED << analyses, globalCharacters, batchBase >>
    ELSE /\ globalCharacters' = Unique(ConcatNames(s.results, 0, s.n))
         /\ analyses' = [i \in 0 .. (NumToAnalyze - 1) |-> Undefined]
         /\ batchBase' = 0
         /\ BatchLoop(X, 0, analyses', globalCharacters')

\* The discovery tasks of the indices in S are invoked.
DStart(d, S) == [i \in DOMAIN d |-> IF i \in S THEN "call1" ELSE d[i]]

\* NovelAnalyzer.analyzeChunks up to its first suspension.
StartAnalyzeChunks ==
    LET s == RunInParallel(nChunks, concurrency)
    IN  /\ SetSched(s)
        /\ dpc' = DStart(dpc, Started(s))
        /\ IF s.promise = "resolved"
           THEN AfterDiscovery(s)
           ELSE /\ stage' = "discovery"
                /\ SetX(X)
                /\ UNCHANGED << analyses, globalCharacters, batchBase >>
        /\ UNCHANGED << inputVars, dret >>

\* The discovery call of chunk i answered v.
DiscoveryReturn(i, v) ==
    /\ dpc[i] = "call1"
    /\ CallOf(i) \notin hung
    /\ LET s == Resume(Sched, WorkerOf(i), v)
       IN  /\ SetSched(s)
           /\ dpc' = DStart([dpc EXCEPT ![i] = IF v = Failure THEN "failed" ELSE "done"],
                            Started(s))
           /\ dret' = IF v = Failure THEN dret ELSE [dret EXCEPT ![i] = v]
           /\ IF promise = "pending" /\ s.promise = "resolved"
              THEN AfterDiscovery(s)
              ELSE /\ stage' = IF promise = "pending" /\ s.promise = "rejected"
                               THEN "failed" ELSE stage
                   /\ SetX(X)
                   /\ UNCHANGED << analyses, globalCharacters, batchBase >>
    /\ progress' = Reported(progress,
                            (IF v = Failure THEN << >> ELSE TaskCall("Discovery", i, nChunks))
                                \o ContinuationCalls)
    /\ UNCHANGED << inputVars, llmOut, mergeVars, hung, requests >>

\* for (const res of batchResults) results[res.index] = res.analysis
StoreBatch(an, x, batch) ==
    [j \in DOMAIN an |->
        IF \E i \in batch : x.xpc[i] = "done" /\ x.ret[i].index = j
        THEN x.ret[CHOOSE i \in batch : x.xpc[i] = "done" /\ x.ret[i].index = j].analysis
        ELSE an[j]]

\* Mutation of BatchResolved: Promise.race, the first task to return.
BatchResolvedAny(x, batch) == \E j \in batch : x.xpc[j] = "done"

\* await Promise.all(batch.map((t) => t())) resolves: every task returned.
BatchResolved(x, batch) == \A j \in batch : x.xpc[j] = "done"

\* The extraction task of chunk i settled inside a batch: Promise.all rejects
\* on the first failure and resolves once every task of the batch returned.
BatchTaskSettled(x, i) ==
    LET batch == BatchIndices(batchBase, concurrency, NumToAnalyze)
    IN  /\ IF stage # "extraction"
           THEN SetX(x) /\ UNCHANGED << stage, analyses, batchBase >>
           ELSE IF Outcome(x, i) = Failure
           THEN SetX(x) /\ stage' = "failed" /\ UNCHANGED << analyses, batchBase >>
           ELSE IF BatchResolved(x, batch)
           THEN /\ analyses' = StoreBatch(analyses, x, batch)
                /\ batchBase' = batchBase + concurrency
                /\ BatchLoop(x, batchBase', analyses', globalCharacters)
           ELSE SetX(x) /\ UNCHANGED << stage, analyses, batchBase >>
        /\ UNCHANGED << inputVars, schedVars, dpc, dret, globalCharacters >>

\* ------------------------------------------------------------- actions
Start ==
    /\ stage = "init"
    /\ IF variant = "run" THEN StartRun ELSE StartAnalyzeChunks
    /\ progress' = Reported(progress,
                            (IF variant = "run"
                             THEN << Report("Parallel Mapping", 0, NumToAnalyze) >>
                             ELSE << Report("Discovery", 0, nChunks) >>)
                                \o ContinuationCalls)
    /\ requests' = requests \o ResolutionRequests
    /\ UNCHANGED << llmOut, mergeVars, hung >>

TaskSettled(x, i) ==
    IF variant = "run" THEN RunTaskSettled(x, i) ELSE BatchTaskSettled(x, i)

\* The initial extraction call of chunk i answered v.
InitialReturn(i, v) ==
    /\ xpc[i] = "call1"
    /\ CallOf(i) \notin hung
    /\ llmOut' = [llmOut EXCEPT ![i].first = v]
    /\ UNCHANGED << mergeVars, progress, hung, requests >>
    /\ LET x == XInitialReturn(X, i, v)
       IN  IF v = Failure
           THEN TaskSettled(x, i)
           ELSE /\ SetX(x)
                /\ UNCHANGED << inputVars, stage, schedVars, dpc, dret, batchBase,
                                analyses, globalCharacters >>

\* The corrective call of chunk i answered v.
RefinedReturn(i, v) ==
    /\ xpc[i] = "call2"
    /\ CallOf(i) \notin hung
    /\ llmOut' = [llmOut EXCEPT ![i].refined = v]
    /\ UNCHANGED << mergeVars, hung >>
    /\ TaskSettled(XRefinedReturn(X, i, v), i)
    /\ requests' = requests \o ResolutionRequests
    /\ progress' = Reported(progress,
                            (IF v = Failure THEN << >>
                             ELSE TaskCall(IF variant = "run" THEN "Parallel Mapping"
                                                              ELSE "CEE (Extraction & HAR)",
                                           i, NumToAnalyze))
                                \o ContinuationCalls)

\* The chunker's variables while no call of chunk() is modelled.
\* resolveEntities' variables while no direct call of it is modelled.
ResolveIdle ==
    /\ rawDiscovered = << >>
    /\ rpc = "off"
    /\ resolved = << >>

\* CharacterDesigner's variables while no call of its run() is modelled.
DesignIdle ==
    /\ designChars = << >>
    /\ designState = "off"
    /\ designPc = << >>
    /\ designOut = << >>
    /\ designOrder = << >>
    /\ designed = Undefined

ChunkerIdle ==
    /\ chunker = "libs/chunker.ts"
    /\ text = << >>
    /\ maxTokens = 0
    /\ overlapTokens = 0
    /\ cpc = "off"
    /\ textChunks = << >>
    /\ buffers = << >>

\* The pipeline's variables before the analyzer is called.
PipelineInit ==
    /\ ChunkerIdle
    /\ ResolveIdle
    /\ DesignIdle
    /\ requests = << >>
    /\ stage = "init"
    /\ nTasks = 0
    /\ cursor = 0
    /\ wpc = << >>
    /\ widx = << >>
    /\ results = << >>
    /\ promise = "none"
    /\ dispatched = << >>
    /\ dpc = [i \in Chunks |-> "idle"]
    /\ dret = [i \in Chunks |-> Undefined]
    /\ xpc = [i \in Chunks |-> "idle"]
    /\ prevArg = [i \in Chunks |-> NoSummary]
    /\ charsArg = [i \in Chunks |-> NoRegistry]
    /\ harArg = [i \in Chunks |-> Undefined]
    /\ ncalls = [i \in Chunks |-> 0]
    /\ ret = [i \in Chunks |-> Undefined]
    /\ llmOut = [i \in Chunks |-> [first |-> Undefined, refined |-> Undefined]]
    /\ batchBase = 0
    /\ analyses = << >>
    /\ globalCharacters = << >>
    /\ progress = << >>
    /\ hung = {}

\* The merge stage's variables while no merge is modelled.
MergeIdle ==
    /\ mpc = "off"
    /\ mergeInput = << >>
    /\ rawMerged = Undefined
    /\ eventIdMap = << >>
    /\ merged = Undefined
    /\ warnings = << >>

Init ==
    /\ variant \in Variants
    /\ nChunks \in 0 .. MaxChunks
    /\ limit \in 0 .. MaxChunks
    /\ concurrency \in 0 .. MaxConc
    /\ onProgress = FALSE
    /\ cachedAnalyses = [i \in Chunks |-> Null]
    /\ PipelineInit
    /\ MergeIdle

Next ==
    \/ Start
    \/ \E i \in Chunks, v \in DiscoveryVals \cup {Failure} : DiscoveryReturn(i, v)
    \/ \E i \in Chunks, v \in AnalysisVals \cup {Failure} : InitialReturn(i, v)
    \/ \E i \in Chunks, v \in AnalysisVals \cup {Failure} : RefinedReturn(i, v)
    \/ \E v \in ResolutionVals \cup {Failure} : ResolutionReturn(v)

Spec == Init /\ [][Next]_vars

\* The generation call in flight for chunk i (or the resolution call) is one
\* that never answers: generateText is awaited with no timeout and no abort
\* signal, so nothing ever settles the promise the caller awaits.
Hang(c) ==
    /\ c \notin hung
    /\ \/ c = ResolutionCall /\ stage = "resolution"
       \/ \E i \in Chunks :
              /\ c = CallOf(i)
              /\ dpc[i] = "call1" \/ xpc[i] \in {"call1", "call2"}
    /\ hung' = hung \cup {c}
    /\ UNCHANGED << inputVars, stage, schedVars, taskVars, llmOut, batchBase, analyses,
                    globalCharacters, progress, requests, mergeVars >>

Calls == { CallOf(i) : i \in Chunks } \cup { ResolutionCall }

HangNext ==
    \/ Next
    \/ \E c \in Calls : Hang(c)

\* The event loop runs every continuation that is ready, and every answer
\* that is going to arrive arrives.
SpecHang == Init /\ [][HangNext]_vars /\ WF_vars(Next)

\* One answer of each kind: the scheduling never reads what a call answered,
\* only whether it answered or threw.
OneDiscovery == [characters |-> << "n1" >>]

OneAnalysis == [summary |-> "s2", discovered |-> << [name |-> "n1", description |-> "d1"] >>]

\* A generation call answers or throws, and the continuation awaiting it runs.
Answer ==
    \/ \E i \in Chunks, v \in {OneDiscovery, Failure} : DiscoveryReturn(i, v)
    \/ \E i \in Chunks, v \in {OneAnalysis, Failure} : InitialReturn(i, v)
    \/ \E i \in Chunks, v \in {OneAnalysis, Failure} : RefinedReturn(i, v)
    \/ \E v \in ResolutionVals \cup {Failure} : ResolutionReturn(v)

FairNext == Start \/ Answer

\* The analysis when every generation call settles: once the analyzer is
\* called, the event loop runs every continuation that is ready.
SpecFair == Init /\ [][FairNext]_vars /\ WF_vars(Answer)

\* ------------------------------------------- a concurrency of 0 or less
\* The analyzers called with options.concurrency from -MaxConc to 0.
NoWorkerInit ==
    /\ variant \in Variants
    /\ nChunks \in 0 .. MaxChunks
    /\ limit \in 0 .. MaxChunks
    /\ concurrency \in (0 - MaxConc) .. 0
    /\ onProgress = FALSE
    /\ cachedAnalyses = [i \in Chunks |-> Null]
    /\ PipelineInit
    /\ MergeIdle

NoWorkerNext == Start

SpecNoWorker == NoWorkerInit /\ [][NoWorkerNext]_vars

\* --------------------------------------------- answers that name their chunk
\* The name only chunk i mentions.
ChunkName(i) == "n" \o ToString(i + 1)

\* The answer of the generation capability to the discovery call of chunk i,
\* a function of the chunk: its own name and the name of chunk 0.
DiscoveryValsOf(i) == { [characters |-> << ChunkName(i), "n1" >>] }

\* Its answer to an extraction call of chunk i: a mention of the chunk's own
\* name and one of the name of chunk 0.
AnalysisValsOf(i) ==
    { [summary |-> "s2",
       discovered |-> << [name |-> ChunkName(i), description |-> "d1"],
                         [name |-> "n1", description |-> "d2"] >>] }

\* The analyzers called with a progress callback.
ResponsesInit ==
    /\ variant \in Variants
    /\ nChunks \in 0 .. MaxChunks
    /\ limit \in 0 .. MaxChunks
    /\ concurrency \in 0 .. MaxConc
    /\ onProgress = TRUE
    /\ cachedAnalyses = [i \in Chunks |-> Null]
    /\ PipelineInit
    /\ MergeIdle

ResponsesNext ==
    \/ Start
    \/ \E i \in Chunks : \E v \in DiscoveryValsOf(i) : DiscoveryReturn(i, v)
    \/ \E i \in Chunks : \E v \in AnalysisValsOf(i) : InitialReturn(i, v)
    \/ \E i \in Chunks : \E v \in AnalysisValsOf(i) : RefinedReturn(i, v)
    \/ \E v \in ResolutionVals : ResolutionReturn(v)

SpecResponses == ResponsesInit /\ [][ResponsesNext]_vars

\* ------------------------------------------------ the demo's analysis cache
\* concurrency: 5 in the demo's call of analyzeChunks.
DemoConcurrency == 5

\* main() of the demo from the cache check on: when every chunk to analyse
\* has a cached analysis they are loaded, otherwise analyzeChunks is called
\* on all the chunks to analyse.
DemoMain ==
    /\ stage = "init"
    /\ IF \A i \in Chunks : cachedAnalyses[i] # Null
       THEN /\ stage' = "done"
            /\ analyses' = cachedAnalyses
            /\ UNCHANGED << inputVars, schedVars, taskVars, batchBase, globalCharacters,
                            progress >>
       ELSE /\ StartAnalyzeChunks
            /\ progress' = Reported(progress,
                                    << Report("Discovery", 0, nChunks) >> \o ContinuationCalls)
    /\ UNCHANGED << llmOut, mergeVars, hung, requests >>

\* The demo slices the chunks before the call and passes maxChunks as limit.
CacheInit ==
    /\ variant = "analyzeChunks"
    /\ nChunks \in 0 .. MaxChunks
    /\ limit = nChunks
    /\ concurrency = DemoConcurrency
    /\ onProgress = TRUE
    /\ cachedAnalyses \in [Chunks -> {Null, CachedAnalysis}]
    /\ PipelineInit
    /\ MergeIdle

CacheNext ==
    \/ DemoMain
    \/ \E i \in Chunks, v \in DiscoveryVals \cup {Failure} : DiscoveryReturn(i, v)
    \/ \E i \in Chunks, v \in AnalysisVals \cup {Failure} : InitialReturn(i, v)
    \/ \E i \in Chunks, v \in AnalysisVals \cup {Failure} : RefinedReturn(i, v)

SpecCache == CacheInit /\ [][CacheNext]_vars

\* The same runs with a progress callback given.
ProgressInit ==
    /\ variant \in Variants
    /\ nChunks \in 0 .. MaxChunks
    /\ limit \in 0 .. MaxChunks
    /\ concurrency \in 0 .. MaxConc
    /\ onProgress = TRUE
    /\ cachedAnalyses = [i \in Chunks |-> Null]
    /\ PipelineInit
    /\ MergeIdle

SpecProgress == ProgressInit /\ [][Next]_vars

\* ===================================================================
\* The merge stage: mergeAnalyses (both variants), then, in the interactive
\* pipeline, consolidatePlotGraph and the application of its map.
\* ===================================================================

\* Bounds of the merge inputs: chunks, events and relations in the whole input.
MaxMergeChunks == 2
MaxEvents == 3
MaxRels == 1

\* The event IDs the generation capability uses inside one chunk.
LocalIds == {"E001", "E002"}

\* Map.prototype.get on a missing key.
Absent == "<undefined>"

\* The sum of the first k values of f.
RECURSIVE SumTo(_, _)
SumTo(f, k) == IF k = 0 THEN 0 ELSE f[k] + SumTo(f, k - 1)

\* The list of nc chunk analyses in which chunk k has ne[k] events and nr[k]
\* relations; the event of chunk k at position p has the local id f gives it
\* and its content, the relation at position p the endpoints g gives it
\* (f and g are read in chunk order).
AnalysesList(nc, ne, nr, f, g) ==
    [k \in 1 .. nc |->
        [events |->
            [p \in 1 .. ne[k] |->
                [id |-> f[SumTo(ne, k - 1) + p], summary |-> [chunk |-> k, pos |-> p]]],
         causalRelations |->
            [p \in 1 .. nr[k] |->
                [fromEventId |-> g[SumTo(nr, k - 1) + p][1],
                 toEventId |-> g[SumTo(nr, k - 1) + p][2],
                 description |-> [chunk |-> k, pos |-> p]]],
         characters |-> << >>]]

\* String(n).padStart(width, fill)
RECURSIVE PadStart(_, _, _)
PadStart(s, width, fill) ==
    IF Len(s) >= width THEN s ELSE PadStart(fill \o s, width, fill)

\* `E${String(eventCounter).padStart(3, "0")}`
FormatId(n) == "E" \o PadStart(ToString(n), 3, "0")

\* A JavaScript Map as its entries in insertion order.
MapHas(map, key) == \E k \in DOMAIN map : map[k].key = key

MapGet(map, key) ==
    IF MapHas(map, key)
    THEN map[CHOOSE k \in DOMAIN map : map[k].key = key].value
    ELSE Absent

\* Mutation of MapSet: a key already present keeps its first value.
MapSetOnce(map, key, value) ==
    IF MapHas(map, key)
    THEN map
    ELSE Append(map, [key |-> key, value |-> value])

\* Map.prototype.set: a key already present has its value replaced.
MapSet(map, key, value) ==
    IF MapHas(map, key)
    THEN [k \in DOMAIN map |-> IF map[k].key = key THEN [key |-> key, value |-> value]
                                                   ELSE map[k]]
    ELSE Append(map, [key |-> key, value |-> value])

\* The truthiness of a string or undefined.
Truthy(s) == s # Absent /\ s # ""

\* Mutation of ChunkCounter: the counter declared inside the chunk loop.
ChunkCounterRestarted(acc) == 1

\* The event counter a chunk's events start from: the running counter.
ChunkCounter(acc) == acc.eventCounter

\* Mutation of EventLeft: event.id = globalId, the input event renumbered.
EventRenumbered(event, globalId) == [event EXCEPT !.id = globalId]

\* The input event after allEvents.push({ ...event, id: globalId }): the spread
\* builds a new object and `event` is not written.
EventLeft(event, globalId) == event

\* The input relation after allRelations.push({ ...relation, fromEventId:
\* fromGlobal, toEventId: toGlobal }), or after the push was skipped.
RelationLeft(relation, fromGlobal, toGlobal) == relation

\* for (const event of analysis.events) { ... }: the events from position p on,
\* with the counter, the chunk's id map and allEvents threaded through, and
\* the input events as the loop leaves them.
RECURSIVE MergeEvents(_, _, _)
MergeEvents(st, events, p) ==
    IF p > Len(events) THEN st
    ELSE LET event    == events[p]
             globalId == FormatId(st.eventCounter)
         IN  MergeEvents(
                 [eventCounter |-> st.eventCounter + 1,
                  idMap |-> MapSet(st.idMap, event.id, globalId),
                  allEvents |-> Append(st.allEvents, [event EXCEPT !.id = globalId]),
                  left |-> Append(st.left, EventLeft(event, globalId))],
                 events, p + 1)

\* The input relations after `for (const relation of analysis.causalRelations)`.
RelationsLeft(idMap, relations) ==
    [p \in DOMAIN relations |->
        RelationLeft(relations[p], MapGet(idMap, relations[p].fromEventId),
                     MapGet(idMap, relations[p].toEventId))]

\* for (const relation of analysis.causalRelations) { ... } of
\* modules/analyzer.ts: remapped through the chunk's map, or dropped.
RECURSIVE RemapRelations(_, _, _)
RemapRelations(idMap, relations, p) ==
    IF p > Len(relations) THEN << >>
    ELSE LET relation   == relations[p]
             fromGlobal == MapGet(idMap, relation.fromEventId)
             toGlobal   == MapGet(idMap, relation.toEventId)
             rest       == RemapRelations(idMap, relations, p + 1)
         IN  IF Truthy(fromGlobal) /\ Truthy(toGlobal)
             THEN << [relation EXCEPT !.fromEventId = fromGlobal,
                                      !.toEventId = toGlobal] >> \o rest
             ELSE rest

\* One round of `for (const analysis of analyses)` in modules/analyzer.ts.
MergeChunk(acc, analysis) ==
    LET st == MergeEvents([eventCounter |-> ChunkCounter(acc), idMap |-> << >>,
                           allEvents |-> acc.allEvents, left |-> << >>],
                          analysis.events, 1)
    IN  [eventCounter |-> st.eventCounter,
         allEvents |-> st.allEvents,
         allRelations |-> acc.allRelations
                            \o RemapRelations(st.idMap, analysis.causalRelations, 1),
         analyses |-> Append(acc.analyses,
                             [analysis EXCEPT
                                 !.events = st.left,
                                 !.causalRelations =
                                     RelationsLeft(st.idMap, analysis.causalRelations)])]

\* One round of the chunk loop in analyzer.ts: the id map is built and the
\* relations are left for the flatMap after the loop.
MergeChunkLegacy(acc, analysis) ==
    LET st == MergeEvents([eventCounter |-> ChunkCounter(acc), idMap |-> << >>,
                           allEvents |-> acc.allEvents, left |-> << >>],
                          analysis.events, 1)
    IN  [eventCounter |-> st.eventCounter,
         allEvents |-> st.allEvents,
         allRelations |-> acc.allRelations,
         analyses |-> Append(acc.analyses, [analysis EXCEPT !.events = st.left])]

\* analyses.flatMap((a) => a.causalRelations)
RECURSIVE FlatRelations(_, _)
FlatRelations(list, k) ==
    IF k > Len(list) THEN << >>
    ELSE list[k].causalRelations \o FlatRelations(list, k + 1)

RECURSIVE MergeLoop(_, _, _)
MergeLoop(acc, list, k) ==
    IF k > Len(list) THEN acc ELSE MergeLoop(MergeChunk(acc, list[k]), list, k + 1)

RECURSIVE MergeLoopLegacy(_, _, _)
MergeLoopLegacy(acc, list, k) ==
    IF k > Len(list) THEN acc
    ELSE MergeLoopLegacy(MergeChunkLegacy(acc, list[k]), list, k + 1)

MergeStart ==
    [eventCounter |-> 1, allEvents |-> << >>, allRelations |-> << >>, analyses |-> << >>]

\* mergeAnalyses of modules/analyzer.ts (events and relations).
MergeAnalyses(list) ==
    LET acc == MergeLoop(MergeStart, list, 1)
    IN  [allEvents |-> acc.allEvents, allRelations |-> acc.allRelations]

\* mergeAnalyses of analyzer.ts (events and relations).
MergeAnalysesLegacy(list) ==
    LET acc == MergeLoopLegacy(MergeStart, list, 1)
    IN  [allEvents |-> acc.allEvents, allRelations |-> FlatRelations(list, 1)]

\* for (const char of globalCharacters) allCharacters.set(char.id, char)
RECURSIVE AllCharacters(_, _, _)
AllCharacters(map, chars, p) ==
    IF p > Len(chars) THEN map
    ELSE AllCharacters(MapSet(map, chars[p].id, chars[p]), chars, p + 1)

\* for (const char of analysis.characters) of analyzer.ts, over the references
\* of every chunk in order: the map is keyed by name, and a second reference of
\* a name spreads existing.aliases, which a CharacterInChunk does not have
\* ([...undefined] throws a TypeError).
RECURSIVE AllCharactersLegacy(_, _, _, _)
AllCharactersLegacy(map, list, k, p) ==
    IF k > Len(list) THEN [threw |-> FALSE, map |-> map]
    ELSE IF p > Len(list[k].characters) THEN AllCharactersLegacy(map, list, k + 1, 1)
    ELSE LET char == list[k].characters[p]
         IN  IF ~MapHas(map, char.name)
             THEN AllCharactersLegacy(MapSet(map, char.name, char), list, k, p + 1)
             ELSE [threw |-> TRUE, map |-> map]

\* What mergeAnalyses returns, or the failure it throws.
MergeReturn(v, list, chars) ==
    IF v = "run"
    THEN LET m == MergeAnalyses(list)
         IN  [allEvents |-> m.allEvents, allRelations |-> m.allRelations,
              allCharacters |-> AllCharacters(<< >>, chars, 1)]
    ELSE LET ac == AllCharactersLegacy(<< >>, list, 1, 1)
             m  == MergeAnalysesLegacy(list)
         IN  IF ac.threw THEN Failure
             ELSE [allEvents |-> m.allEvents, allRelations |-> m.allRelations,
                   allCharacters |-> ac.map]

\* What mergeAnalyses records for the relations it does not push: the test
\* `if (fromGlobal && toGlobal)` has no else branch and the function calls no
\* logger, in either variant.
MergeWarnings(v, list) == << >>

\* The arguments of mergeAnalyses as the call leaves them: the analyses after
\* the chunk loop, and the character list, whose elements are stored in
\* allCharacters by reference (allCharacters.set(char.id, char)) or read
\* (analyzer.ts) and never written.
InputsLeft(v, list, chars) ==
    [analyses |-> IF v = "run" THEN MergeLoop(MergeStart, list, 1).analyses
                  ELSE MergeLoopLegacy(MergeStart, list, 1).analyses,
     globalCharacters |-> chars]

\* The caller merges the analyses it holds.
Merge ==
    /\ mpc = "input"
    /\ rawMerged' = MergeReturn(variant, mergeInput, globalCharacters)
    /\ warnings' = warnings \o MergeWarnings(variant, mergeInput)
    /\ mergeInput' = InputsLeft(variant, mergeInput, globalCharacters).analyses
    /\ globalCharacters' = InputsLeft(variant, mergeInput, globalCharacters).globalCharacters
    /\ mpc' = IF rawMerged' = Failure THEN "failed" ELSE "merged"
    /\ UNCHANGED << inputVars, stage, schedVars, taskVars, llmOut, batchBase, analyses,
                    progress, hung, requests, eventIdMap, merged >>

\* The pipeline's variables while only the merge stage is modelled: an
\* analyzer called on no chunk, finished.
SchedulerIdle ==
    /\ nChunks = 0
    /\ limit = 0
    /\ concurrency = 1
    /\ stage = "done"
    /\ nTasks = 0
    /\ cursor = 0
    /\ wpc = << >>
    /\ widx = << >>
    /\ results = << >>
    /\ promise = "resolved"
    /\ dispatched = << >>
    /\ dpc = << >>
    /\ dret = << >>
    /\ xpc = << >>
    /\ prevArg = << >>
    /\ charsArg = << >>
    /\ harArg = << >>
    /\ ncalls = << >>
    /\ ret = << >>
    /\ llmOut = << >>
    /\ batchBase = 0
    /\ analyses = << >>
    /\ onProgress = FALSE
    /\ cachedAnalyses = << >>
    /\ progress = << >>
    /\ hung = {}
    /\ requests = << >>

PipelineIdle ==
    SchedulerIdle /\ globalCharacters = << >> /\ ChunkerIdle /\ ResolveIdle /\ DesignIdle

\* mergeInput is one of the lists of chunk analyses within the bounds.
MergeInputChosen ==
    \E nc \in 0 .. MaxMergeChunks :
    \E ne \in [1 .. nc -> 0 .. MaxEvents], nr \in [1 .. nc -> 0 .. MaxRels] :
       /\ SumTo(ne, nc) <= MaxEvents
       /\ SumTo(nr, nc) <= MaxRels
       /\ \E f \in [1 .. SumTo(ne, nc) -> LocalIds],
             g \in [1 .. SumTo(nr, nc) -> LocalIds \X LocalIds] :
             mergeInput = AnalysesList(nc, ne, nr, f, g)

MergeInit ==
    /\ variant \in Variants
    /\ PipelineIdle
    /\ mpc = "input"
    /\ MergeInputChosen
    /\ rawMerged = Undefined
    /\ eventIdMap = << >>
    /\ merged = Undefined
    /\ warnings = << >>

MergeNext == Merge

SpecMerge == MergeInit /\ [][MergeNext]_vars

\* ------------------------------------------- consolidation (deduplication)
\* The analyses of the consolidation runs: one chunk of n events numbered the
\* way the generation capability numbers them, with m relations among them.
\* Every graph mergeAnalyses can return over n events has this shape.
NumberedEvents(n) ==
    [p \in 1 .. n |-> [id |-> FormatId(p), summary |-> [chunk |-> 1, pos |-> p]]]

RelationsAmong(n, m) ==
    { [p \in 1 .. m |-> [fromEventId |-> FormatId(f[p][1]), toEventId |-> FormatId(f[p][2]),
                         description |-> [chunk |-> 1, pos |-> p]]] :
        f \in [1 .. m -> (1 .. n) \X (1 .. n)] }

ConsolidationInputs ==
    UNION { UNION {
        { << [events |-> NumberedEvents(n), causalRelations |-> rl,
              characters |-> << >>] >> :
            rl \in RelationsAmong(n, m) }
        : m \in 0 .. MaxRels } : n \in 0 .. MaxEvents }

\* An ID that names no event of the graph.
UnknownId == "E999"

\* What the generation capability may answer as eventMappings for the events
\* `events`: for each event at most one mapping, to an event's ID, to an
\* unknown ID or to the empty string.
RECURSIVE MappingsOf(_, _, _)
MappingsOf(events, choice, p) ==
    IF p > Len(events) THEN << >>
    ELSE IF choice[p] = Absent THEN MappingsOf(events, choice, p + 1)
    ELSE << [originalId |-> events[p].id, canonicalId |-> choice[p]] >>
            \o MappingsOf(events, choice, p + 1)

EventMappingsVals(events) ==
    { MappingsOf(events, choice, 1) :
        choice \in [DOMAIN events ->
                      { events[k].id : k \in DOMAIN events } \cup {UnknownId, "", Absent}] }

\* for (const mapping of consolidation.eventMappings) eventIdMap.set(...)
RECURSIVE BuildEventIdMap(_, _, _)
BuildEventIdMap(map, mappings, p) ==
    IF p > Len(mappings) THEN map
    ELSE BuildEventIdMap(MapSet(map, mappings[p].originalId, mappings[p].canonicalId),
                         mappings, p + 1)

\* a || b on strings
OrElse(a, b) == IF Truthy(a) THEN a ELSE b

\* Mutation of KeepEvent: only the events the map does not mention stay.
KeepEventUnmapped(map, e) == ~MapHas(map, e.id)

\* rawMerged.allEvents.filter(...): an event stays when the map has no
\* canonical ID for it or names the event itself.
KeepEvent(map, e) ==
    LET canonical == MapGet(map, e.id)
    IN  ~Truthy(canonical) \/ canonical = e.id

DeduplicatedEvents(events, map) ==
    LET keep(e) == KeepEvent(map, e) IN SelectSeq(events, keep)

\* rawMerged.allRelations.map(...): both endpoints through the map.
RefinedRelations(relations, map) ==
    [k \in DOMAIN relations |->
        [relations[k] EXCEPT
            !.fromEventId = OrElse(MapGet(map, relations[k].fromEventId),
                                   relations[k].fromEventId),
            !.toEventId = OrElse(MapGet(map, relations[k].toEventId),
                                 relations[k].toEventId)]]

\* What the consolidation call may answer once the graph is merged.
ConsolidationVals ==
    IF mpc = "merged"
    THEN { [eventMappings |-> m] : m \in EventMappingsVals(rawMerged.allEvents) }
            \cup {Failure}
    ELSE { }

\* Step 5 of the interactive pipeline after mergeAnalyses: the consolidation
\* call answers v and its map is applied.
Consolidate(v) ==
    /\ mpc = "merged"
    /\ variant = "run"
    /\ IF v = Failure
       THEN /\ mpc' = "failed"
            /\ UNCHANGED << eventIdMap, merged >>
       ELSE /\ mpc' = "consolidated"
            /\ eventIdMap' = BuildEventIdMap(<< >>, v.eventMappings, 1)
            /\ merged' = [allEvents |-> DeduplicatedEvents(rawMerged.allEvents, eventIdMap'),
                          allRelations |-> RefinedRelations(rawMerged.allRelations, eventIdMap')]
    /\ UNCHANGED << inputVars, pipelineVars, mergeInput, rawMerged, warnings >>

ConsolidateInit ==
    /\ variant = "run"
    /\ PipelineIdle
    /\ mpc = "input"
    /\ mergeInput \in ConsolidationInputs
    /\ rawMerged = Undefined
    /\ eventIdMap = << >>
    /\ merged = Undefined
    /\ warnings = << >>

ConsolidateNext ==
    \/ Merge
    \/ \E v \in ConsolidationVals : Consolidate(v)

SpecConsolidate == ConsolidateInit /\ [][ConsolidateNext]_vars

\* ------------------------------------------- entity references in the merge
\* Bounds: the references one list holds and the characters of the global list.
MaxRefs == 2
MaxGlobal == 2

\* The character IDs the generation capability hands out.
CharIds == {"CHAR_001", "CHAR_002"}

NameOf(id) == IF id = "CHAR_001" THEN "A" ELSE "B"

SeqsUpTo(S, n) == UNION { [1 .. k -> S] : k \in 0 .. n }

\* Character entries of the global list and references inside a chunk.
CharacterVals == { [id |-> c, name |-> NameOf(c)] : c \in CharIds }

\* One chunk analysis: at most one event with the character IDs it involves,
\* and the chunk's active character references.
EntityInputs ==
    { << [events |-> ev, causalRelations |-> << >>, characters |-> refs] >> :
        ev \in { << >> } \cup
               { << [id |-> "E001", summary |-> [chunk |-> 1, pos |-> 1],
                     characters |-> cs] >> : cs \in SeqsUpTo(CharIds, MaxRefs) },
        refs \in SeqsUpTo(CharacterVals, MaxRefs) }

EntitiesInit ==
    /\ variant \in Variants
    /\ SchedulerIdle
    /\ ChunkerIdle
    /\ ResolveIdle
    /\ DesignIdle
    /\ globalCharacters \in SeqsUpTo(CharacterVals, MaxGlobal)
    /\ mpc = "input"
    /\ mergeInput \in EntityInputs
    /\ rawMerged = Undefined
    /\ eventIdMap = << >>
    /\ merged = Undefined
    /\ warnings = << >>

EntitiesNext == Merge

SpecEntities == EntitiesInit /\ [][EntitiesNext]_vars

\* ------------------------------------------ the arguments of mergeAnalyses
\* mergeAnalyses(analyses, globalCharacters) called on a list of analyses with
\* events and relations and on an empty or a two-character registry.
ArgumentsInit ==
    /\ variant \in Variants
    /\ SchedulerIdle
    /\ ChunkerIdle
    /\ ResolveIdle
    /\ DesignIdle
    /\ globalCharacters \in { << >> } \cup [1 .. 2 -> CharacterVals]
    /\ mpc = "input"
    /\ MergeInputChosen
    /\ rawMerged = Undefined
    /\ eventIdMap = << >>
    /\ merged = Undefined
    /\ warnings = << >>

ArgumentsNext == Merge

SpecArguments == ArgumentsInit /\ [][ArgumentsNext]_vars

\* ===================================================================
\* TokenChunker: chunk(text) of libs/chunker.ts and the earlier chunk(text)
\* kept in modules/director.ts. A string is the sequence of its characters.
\* ===================================================================

LF == "\n"
CR == "\r"
\* One of the sentence delimiters of /([。！？；]|\n)/ other than the line feed.
Stop == "."

\* The tokenizer, an external library: one token per character, so that
\* encode and decode are inverse to each other and counts add up.
Encode(s) == s

Decode(tokens) == tokens

\* countTokens(text)
CountTokens(s) == Len(Encode(s))

\* text.replace(/\r\n/g, "\n")
RECURSIVE NormalizeNewlines(_)
NormalizeNewlines(s) ==
    IF Len(s) <= 1 THEN s
    ELSE IF Len(s) = 2 THEN (IF s[1] = CR /\ s[2] = LF THEN << LF >> ELSE s)
    ELSE \* the matches do not overlap: the halves are rewritten on their own,
         \* cut after the line feed when the middle falls inside a match
         LET m   == Len(s) \div 2
             cut == IF s[m] = CR /\ s[m + 1] = LF THEN m + 1 ELSE m
         IN  NormalizeNewlines(SubSeq(s, 1, cut))
                 \o NormalizeNewlines(SubSeq(s, cut + 1, Len(s)))

\* The start of the leftmost match of /\n\n+/ in s, or 0.
FirstBreak(s) ==
    IF \E i \in 1 .. (Len(s) - 1) : s[i] = LF /\ s[i + 1] = LF
    THEN CHOOSE i \in 1 .. (Len(s) - 1) :
            /\ s[i] = LF /\ s[i + 1] = LF
            /\ \A j \in 1 .. (i - 1) : ~(s[j] = LF /\ s[j + 1] = LF)
    ELSE 0

\* The end of the run of line feeds that starts at i (the greedy match).
BreakEnd(s, i) ==
    CHOOSE j \in i .. Len(s) :
        /\ \A k \in i .. j : s[k] = LF
        /\ (j = Len(s) \/ s[j + 1] # LF)

\* normalizedText.split(/\n\n+/)
RECURSIVE SplitParagraphs(_)
SplitParagraphs(s) ==
    LET i == FirstBreak(s)
    IN  IF i = 0 THEN << s >>
        ELSE << SubSeq(s, 1, i - 1) >>
                \o SplitParagraphs(SubSeq(s, BreakEnd(s, i) + 1, Len(s)))

IsDelimiter(c) == c \in {Stop, LF}

\* para.split(/([。！？；]|\n)/g) read two by two: sentences[i] + (sentences[i + 1] || "")
RECURSIVE SplitSentences(_)
SplitSentences(para) ==
    IF \E i \in DOMAIN para : IsDelimiter(para[i])
    THEN LET i == CHOOSE i \in DOMAIN para :
                    IsDelimiter(para[i]) /\ \A j \in 1 .. (i - 1) : ~IsDelimiter(para[j])
         IN  << SubSeq(para, 1, i) >> \o SplitSentences(SubSeq(para, i + 1, Len(para)))
    ELSE << para >>

IsSpace(c) == c \in {" ", LF, CR}

\* String.prototype.trim
RECURSIVE TrimStart(_)
TrimStart(s) == IF s # << >> /\ IsSpace(s[1]) THEN TrimStart(Tail(s)) ELSE s

RECURSIVE TrimEnd(_)
TrimEnd(s) ==
    IF s # << >> /\ IsSpace(s[Len(s)]) THEN TrimEnd(SubSeq(s, 1, Len(s) - 1)) ELSE s

Trim(s) == TrimEnd(TrimStart(s))

\* Array.prototype.slice(start): a negative start counts from the end, and
\* -0 is 0.
SliceFrom(a, start) ==
    LET from == IF start < 0 THEN Max(Len(a) + start, 0) ELSE Min(start, Len(a))
    IN  SubSeq(a, from + 1, Len(a))

\* getOverlapText(text)
GetOverlapText(s, ov) ==
    LET tokens == Encode(s)
    IN  IF Len(tokens) <= ov THEN s
        ELSE Decode(SliceFrom(tokens, 0 - ov))

\* ------------------------------------------------------------ chunk(text)
\* currentContent.length > this.overlapTokens + 10
FlushMargin == 10
\* currentTokens > this.countTokens(this.getOverlapText(currentContent)) + 10
OverlapMargin == 10
\* currentContent.length > 20
MinLastLength == 20

ParagraphBreak == << LF, LF >>

\* Mutation of TextChunk: the span starts where the text not yet read starts.
TextChunkNextStart(index, content, tokenCount, startChar, endChar) ==
    [index |-> index, content |-> content, tokenCount |-> tokenCount,
     startChar |-> endChar + 1, endChar |-> endChar]

\* One element of chunks: { index, content, tokenCount, startChar, endChar }.
TextChunk(index, content, tokenCount, startChar, endChar) ==
    [index |-> index, content |-> content, tokenCount |-> tokenCount,
     startChar |-> startChar, endChar |-> endChar]

\* The locals of chunk(text); seedLen and buffers are history: the length of
\* the overlap the current buffer started with, and for every chunk pushed
\* the untrimmed buffer, its seed length and the overlap taken from it.
ChunkStart ==
    [chunks |-> << >>, currentContent |-> << >>, currentTokens |-> 0,
     startChar |-> 0, charOffset |-> 0, seedLen |-> 0, buffers |-> << >>]

\* chunks.push({ index: chunks.length, content: currentContent.trim(), ... })
PushChunk(st, overlap, flushed) ==
    [st EXCEPT
        !.chunks = Append(@, TextChunk(Len(st.chunks), Trim(st.currentContent),
                                       st.currentTokens, st.startChar, st.charOffset)),
        !.buffers = Append(@, [buffer |-> st.currentContent, seedLen |-> st.seedLen,
                               overlap |-> overlap, flushed |-> flushed])]

\* flushChunk()
FlushChunk(st, ov) ==
    IF Trim(st.currentContent) # << >>
    THEN LET overlap == GetOverlapText(st.currentContent, ov)
         IN  [PushChunk(st, overlap, TRUE) EXCEPT
                 !.currentContent = overlap,
                 !.currentTokens = CountTokens(overlap),
                 !.startChar = st.charOffset - Len(overlap),
                 !.seedLen = Len(overlap)]
    ELSE st

\* for (let i = 0; i < sentences.length; i += 2) { ... } from sentence i on.
RECURSIVE AddSentences(_, _, _, _, _)
AddSentences(st, sentences, i, mx, ov) ==
    IF i > Len(sentences) THEN st
    ELSE LET s       == sentences[i]
             sTokens == CountTokens(s)
             st1     == IF st.currentTokens + sTokens > mx THEN FlushChunk(st, ov) ELSE st
         IN  AddSentences([st1 EXCEPT !.currentContent = @ \o s,
                                      !.currentTokens = @ + sTokens,
                                      !.charOffset = @ + Len(s)],
                          sentences, i + 1, mx, ov)

\* One round of `for (const para of paragraphs)` in libs/chunker.ts.
AddParagraph(st, para, mx, ov) ==
    LET paraWithBreak == para \o ParagraphBreak
        paraTokens    == CountTokens(paraWithBreak)
        stA == IF /\ st.currentTokens + paraTokens > mx
                  /\ Len(st.currentContent) > ov + FlushMargin
               THEN FlushChunk(st, ov) ELSE st
    IN  IF paraTokens > mx
        THEN LET stB == IF stA.currentTokens >
                             CountTokens(GetOverlapText(stA.currentContent, ov)) + OverlapMargin
                        THEN FlushChunk(stA, ov) ELSE stA
                 stS == AddSentences(stB, SplitSentences(para), 1, mx, ov)
             IN  [stS EXCEPT !.currentContent = @ \o ParagraphBreak,
                             !.currentTokens = @ + CountTokens(ParagraphBreak),
                             !.charOffset = @ + 2]
        ELSE [stA EXCEPT !.currentContent = @ \o paraWithBreak,
                         !.currentTokens = @ + paraTokens,
                         !.charOffset = @ + Len(paraWithBreak)]

\* One round of `for (const para of paragraphs)` in the earlier chunk().
AddParagraphLegacy(st, para, mx, ov) ==
    LET paraWithBreak == para \o ParagraphBreak
        paraTokens    == CountTokens(paraWithBreak)
        st1 == IF st.currentTokens + paraTokens > mx /\ st.currentContent # << >>
               THEN LET overlap == GetOverlapText(st.currentContent, ov)
                    IN  [PushChunk(st, overlap, TRUE) EXCEPT
                            !.currentContent = overlap \o paraWithBreak,
                            !.currentTokens = CountTokens(overlap \o paraWithBreak),
                            !.startChar = st.charOffset - Len(overlap),
                            !.seedLen = Len(overlap)]
               ELSE [st EXCEPT !.currentContent = @ \o paraWithBreak,
                               !.currentTokens = @ + paraTokens]
    IN  [st1 EXCEPT !.charOffset = @ + Len(paraWithBreak)]

RECURSIVE AddParagraphs(_, _, _, _, _, _)
AddParagraphs(version, st, paragraphs, k, mx, ov) ==
    IF k > Len(paragraphs) THEN st
    ELSE AddParagraphs(version,
                       IF version = "libs/chunker.ts"
                       THEN AddParagraph(st, paragraphs[k], mx, ov)
                       ELSE AddParagraphLegacy(st, paragraphs[k], mx, ov),
                       paragraphs, k + 1, mx, ov)

\* Mutation of KeepLast: whatever is left in the buffer is pushed.
KeepLastAlways(version, content) == TRUE

\* The test on what is left after the last paragraph.
KeepLast(version, content) ==
    IF version = "libs/chunker.ts"
    THEN Trim(content) # << >> /\ Len(content) > MinLastLength
    ELSE Trim(content) # << >>

\* chunk(text), with the history of its buffers.
ChunkText(version, s, mx, ov) ==
    LET st == AddParagraphs(version, ChunkStart,
                            SplitParagraphs(NormalizeNewlines(s)), 1, mx, ov)
    IN  IF KeepLast(version, st.currentContent)
        THEN PushChunk(st, << >>, FALSE)
        ELSE st

\* ------------------------------------------------------ the chunker's runs
\* The texts: at most MaxItems pieces, each a short or a long sentence, a
\* long run without delimiter, a paragraph break or a Windows line end.
MaxItems == 4

Run(n) == [i \in 1 .. n |-> "a"]

Items ==
    { Run(3) \o << Stop >>, Run(14) \o << Stop >>, Run(26), ParagraphBreak, << CR, LF >> }

RECURSIVE Texts(_)
Texts(n) ==
    IF n = 0 THEN { << >> }
    ELSE Texts(n - 1) \cup { s \o item : s \in Texts(n - 1), item \in Items }

MaxTokensVals == {16, 30}

OverlapTokensVals == {0, 4, 30}

ChunkCall ==
    /\ cpc = "input"
    /\ LET st == ChunkText(chunker, text, maxTokens, overlapTokens)
       IN  /\ textChunks' = st.chunks
           /\ buffers' = st.buffers
    /\ cpc' = "done"
    /\ UNCHANGED << variant, nChunks, limit, concurrency, onProgress, cachedAnalyses,
                    chunker, text, maxTokens, overlapTokens, resolveVars, designVars,
                    pipelineVars, mergeVars >>

ChunkerInit ==
    /\ variant = "run"
    /\ SchedulerIdle
    /\ ResolveIdle
    /\ DesignIdle
    /\ globalCharacters = << >>
    /\ MergeIdle
    /\ chunker \in {"libs/chunker.ts", "modules/director.ts"}
    /\ text \in Texts(MaxItems)
    /\ maxTokens \in MaxTokensVals
    /\ overlapTokens \in OverlapTokensVals
    /\ cpc = "input"
    /\ textChunks = << >>
    /\ buffers = << >>

ChunkerNext == ChunkCall

SpecChunker == ChunkerInit /\ [][ChunkerNext]_vars

\* ------------------------------------------------- the documented example
\* A paragraph of n tokens: a run of text, closed by a sentence delimiter or not.
Paragraph(n, closed) == IF closed THEN Run(n - 1) \o << Stop >> ELSE Run(n)

\* text = [a, b, c].join("\n\n"), three paragraphs of na, nb and nc tokens.
ThreeParagraphs(na, nb, nc, closed) ==
    Paragraph(na, closed) \o ParagraphBreak \o Paragraph(nb, closed)
        \o ParagraphBreak \o Paragraph(nc, closed)

\* new TokenChunker(30, 5).chunk(text) on three paragraphs of 50 tokens in all,
\* the two paragraph breaks counted (46 tokens of text) or not (50).
ExampleInit ==
    /\ variant = "run"
    /\ SchedulerIdle
    /\ ResolveIdle
    /\ DesignIdle
    /\ globalCharacters = << >>
    /\ MergeIdle
    /\ chunker = "libs/chunker.ts"
    /\ \E total \in {46, 50}, closed \in BOOLEAN :
       \E na \in 1 .. total - 2 :
       \E nb \in 1 .. total - na - 1 :
          text = ThreeParagraphs(na, nb, total - na - nb, closed)
    /\ maxTokens = 30
    /\ overlapTokens = 5
    /\ cpc = "input"
    /\ textChunks = << >>
    /\ buffers = << >>

ExampleNext == ChunkCall

SpecExample == ExampleInit /\ [][ExampleNext]_vars

\* ------------------------------------------- direct calls of resolveEntities
\* Bounds: the mentions of one call, and the calls made on the same mentions.
MaxMentions == 6
MaxRuns == 2

Names == {"n1", "n2"}

\* The names of n mentions, up to renaming: the first mention names "n1".
NameLists(n) == { ns \in [1 .. n -> Names] : n > 0 => ns[1] = "n1" }

\* The descriptions of n mentions, up to renaming: a description is one seen
\* before or the next new one.
RECURSIVE DescriptionLists(_)
DescriptionLists(n) ==
    IF n = 0 THEN { << >> }
    ELSE UNION { { Append(ds, d) :
                       d \in 1 .. (Cardinality({ ds[k] : k \in DOMAIN ds }) + 1) } :
                   ds \in DescriptionLists(n - 1) }

\* The mentions { name, description } of the names ns and descriptions ds.
Mentions(ns, ds) ==
    [k \in DOMAIN ds |-> [name |-> ns[k], description |-> "d" \o ToString(ds[k])]]

\* A deterministic generation stub for the resolution call: the buckets whose
\* first description is the same are one person; the first such bucket gives
\* the name, the others the aliases.
StubCharacters(request) ==
    LET firsts == { k \in DOMAIN request :
                      \A j \in DOMAIN request :
                          request[j].descriptions[1] = request[k].descriptions[1] => j >= k }
        same(k) == { j \in DOMAIN request :
                       j # k /\ request[j].descriptions[1] = request[k].descriptions[1] }
    IN  { [id |-> "CHAR_" \o ToString(k), name |-> request[k].name,
           aliases |-> { request[j].name : j \in same(k) }] : k \in firsts }

\* resolveEntities(rawDiscovered) up to its await: an empty list returns [],
\* otherwise the aggregated inputs are sent.
ResolveCall ==
    /\ rpc = "idle"
    /\ Len(resolved) < MaxRuns
    /\ IF Len(rawDiscovered) = 0
       THEN /\ resolved' = Append(resolved, [characters |-> {}])
            /\ UNCHANGED << rpc, requests >>
       ELSE /\ requests' = Append(requests, AggregatedInputs(rawDiscovered))
            /\ rpc' = "call"
            /\ UNCHANGED resolved
    /\ UNCHANGED << variant, nChunks, limit, concurrency, onProgress, cachedAnalyses,
                    chunkerVars, rawDiscovered, designVars, stage, schedVars, taskVars,
                    llmOut, batchBase, analyses, globalCharacters, progress, hung,
                    mergeVars >>

\* The resolution call answered: return resolutionResult.characters.
ResolveReturn ==
    /\ rpc = "call"
    /\ resolved' = Append(resolved,
                          [characters |-> StubCharacters(requests[Len(requests)])])
    /\ rpc' = "idle"
    /\ UNCHANGED << variant, nChunks, limit, concurrency, onProgress, cachedAnalyses,
                    chunkerVars, rawDiscovered, designVars, pipelineVars, mergeVars >>

ResolveInit ==
    /\ variant = "run"
    /\ SchedulerIdle
    /\ ChunkerIdle
    /\ DesignIdle
    /\ globalCharacters = << >>
    /\ MergeIdle
    /\ \E n \in 0 .. MaxMentions :
       \E ns \in NameLists(n), ds \in DescriptionLists(n) :
          rawDiscovered = Mentions(ns, ds)
    /\ rpc = "idle"
    /\ resolved = << >>

ResolveNext == ResolveCall \/ ResolveReturn

SpecResolve == ResolveInit /\ [][ResolveNext]_vars

\* ------------------------------------------ direct calls of CharacterDesigner
\* Bound: the characters handed to one call of run().
MaxDesigned == 3

\* Characters of the global registry: one just resolved, one with its optional
\* fields set (designed before), one unnamed extra.
DesignCharacterVals ==
    { [id |-> "CHAR_001", name |-> "n1", aliases |-> << >>, description |-> "d1",
       importance |-> "major"],
      [id |-> "CHAR_002", name |-> "n2", aliases |-> << "n3" >>, description |-> "d2",
       firstAppearance |-> "f2", importance |-> "minor", visualTraits |-> "t0"],
      [id |-> "CHAR_003", name |-> "n1", aliases |-> << >>, description |-> "d1",
       importance |-> "extra"] }

\* What llm.chat may answer to a design call: a text, or it throws.
TraitsVals == {"t1", "t2"}

\* { ...obj, field }: the object's own fields, the named one set or replaced.
Spread(obj, field, value) ==
    [f \in DOMAIN obj \cup {field} |-> IF f = field THEN value ELSE obj[f]]

\* Mutation of AllValues: the values in the order the tasks settled.
ValuesInCompletionOrder(out, order) == [k \in DOMAIN order |-> out[order[k]]]

\* The value Promise.all resolves with: the tasks' values in the tasks' order.
AllValues(out, order) == [i \in DOMAIN out |-> out[i]]

\* run(characters) up to its return: every task is started and runs up to its
\* call of llm.chat; Promise.all of no task is resolved with [].
DesignRun ==
    /\ designState = "input"
    /\ designPc' = [i \in DOMAIN designChars |-> "call"]
    /\ designOut' = [i \in DOMAIN designChars |-> Undefined]
    /\ IF Len(designChars) = 0
       THEN designState' = "resolved" /\ designed' = << >>
       ELSE designState' = "pending" /\ UNCHANGED designed
    /\ UNCHANGED << variant, nChunks, limit, concurrency, onProgress, cachedAnalyses,
                    chunkerVars, resolveVars, designChars, designOrder, pipelineVars,
                    mergeVars >>

\* llm.chat answered task i: it returns { ...char, visualTraits }; the last
\* task to return resolves Promise.all.
DesignReturn(i, visualTraits) ==
    /\ designState \in {"pending", "rejected"}
    /\ i \in DOMAIN designPc
    /\ designPc[i] = "call"
    /\ designPc' = [designPc EXCEPT ![i] = "done"]
    /\ designOut' = [designOut EXCEPT ![i] = Spread(designChars[i], "visualTraits",
                                                     visualTraits)]
    /\ designOrder' = Append(designOrder, i)
    /\ IF designState = "pending" /\ \A j \in DOMAIN designPc : designPc'[j] = "done"
       THEN designState' = "resolved" /\ designed' = AllValues(designOut', designOrder')
       ELSE UNCHANGED << designState, designed >>
    /\ UNCHANGED << variant, nChunks, limit, concurrency, onProgress, cachedAnalyses,
                    chunkerVars, resolveVars, designChars, pipelineVars, mergeVars >>

\* llm.chat threw in task i: the task is rejected, and so is Promise.all if it
\* is still pending.
DesignThrow(i) ==
    /\ designState \in {"pending", "rejected"}
    /\ i \in DOMAIN designPc
    /\ designPc[i] = "call"
    /\ designPc' = [designPc EXCEPT ![i] = "failed"]
    /\ designOut' = [designOut EXCEPT ![i] = Failure]
    /\ designOrder' = Append(designOrder, i)
    /\ IF designState = "pending"
       THEN designState' = "rejected" /\ designed' = Failure
       ELSE UNCHANGED << designState, designed >>
    /\ UNCHANGED << variant, nChunks, limit, concurrency, onProgress, cachedAnalyses,
                    chunkerVars, resolveVars, designChars, pipelineVars, mergeVars >>

DesignInit ==
    /\ variant = "run"
    /\ SchedulerIdle
    /\ ChunkerIdle
    /\ ResolveIdle
    /\ globalCharacters = << >>
    /\ MergeIdle
    /\ designChars \in SeqsUpTo(DesignCharacterVals, MaxDesigned)
    /\ designState = "input"
    /\ designPc = << >>
    /\ designOut = << >>
    /\ designOrder = << >>
    /\ designed = Undefined

DesignNext ==
    \/ DesignRun
    \/ \E i \in 1 .. MaxDesigned, visualTraits \in TraitsVals : DesignReturn(i, visualTraits)
    \/ \E i \in 1 .. MaxDesigned : DesignThrow(i)

SpecDesign == DesignInit /\ [][DesignNext]_vars

\* ===================================================================
\* Properties
\* ===================================================================

\* The value the task of index i of the runInParallel call returned.
TaskReturned(i) == IF variant = "run" THEN ret[i] ELSE dret[i]

\* The tasks of the runInParallel call that were started and have not settled.
InFlight ==
    IF variant = "run"
    THEN { i \in Chunks : xpc[i] \in {"call1", "call2"} }
    ELSE { i \in Chunks : dpc[i] = "call1" }

Awaiting == { w \in DOMAIN wpc : wpc[w] = "await" }

\* C1: whenever runInParallel resolves under a concurrency of at least 1, its
\* array has one slot per task and slot i holds the value task i returned,
\* whatever the order in which the tasks completed.
C1_ResultsInInputOrder ==
    (promise = "resolved" /\ concurrency >= 1) =>
        /\ DOMAIN results = 0 .. (nTasks - 1)
        /\ \A i \in 0 .. (nTasks - 1) :
              /\ results[i] # Undefined
              /\ results[i] = TaskReturned(i)

\* C1 witness: three tasks under two workers resolved, and task 1 completed
\* before task 0 (worker 2 went on to task 2 while worker 1 never left task 0).
C1_Witness ==
    /\ promise = "resolved"
    /\ nTasks = 3
    /\ concurrency = 2
    /\ widx = << 0, 2 >>
    /\ \A i \in 0 .. 2 : results[i] = TaskReturned(i)

\* C2: the indices are dispatched in the order 0, 1, 2, ... with the cursor
\* counting them: no index is started twice, none is skipped, a task is
\* started exactly when its index has been taken, and when runInParallel
\* resolves under a concurrency of at least 1 every index 0..N-1 was taken.
C2_DispatchedExactlyOnce ==
    /\ Len(dispatched) = cursor
    /\ cursor <= nTasks
    /\ \A k \in DOMAIN dispatched : dispatched[k] = k - 1
    /\ stage # "init" =>
          \A i \in 0 .. (nTasks - 1) :
              (i < cursor) <=> (IF variant = "run" THEN xpc[i] # "idle" ELSE dpc[i] # "idle")
    /\ (promise = "resolved" /\ concurrency >= 1) => cursor = nTasks

\* C2 witness: three tasks under two workers, all dispatched, resolved, with
\* the third index taken by the second worker.
C2_Witness ==
    /\ promise = "resolved"
    /\ concurrency = 2
    /\ dispatched = << 0, 1, 2 >>
    /\ widx = << 0, 2 >>

\* C3: at every moment the tasks in flight are exactly the tasks awaited by
\* the workers, one per worker, so there are at most min(concurrency, N).
C3_InFlightBounded ==
    /\ Cardinality(InFlight) <= Max(Min(concurrency, nTasks), 0)
    /\ InFlight = { widx[w] : w \in Awaiting }
    /\ \A w1, w2 \in Awaiting : widx[w1] = widx[w2] => w1 = w2

\* C3 witness: two workers, three tasks, the ceiling of two in flight reached
\* again after a worker finished a task and pulled the last index.
C3_Witness ==
    /\ concurrency = 2
    /\ nTasks = 3
    /\ cursor = 3
    /\ Cardinality(InFlight) = 2

\* The result of chunk i is stored where the stage keeps it.
Stored(i) ==
    IF variant = "run"
    THEN results[i] # Undefined /\ results[i] = ret[i]
    ELSE analyses[i] # Undefined /\ analyses[i] = ret[i].analysis

\* No extraction of a later batch has started before every extraction of an
\* earlier batch returned and was stored.
BatchBarrier ==
    \A i, j \in 0 .. (NumToAnalyze - 1) :
        ( /\ concurrency > 0
          /\ (i \div concurrency) < (j \div concurrency)
          /\ xpc[j] # "idle" )
        => (xpc[i] = "done" /\ Stored(i))

C5_PreviousSummaryGiven ==
    \A i \in Chunks : (i > 0 /\ xpc[i] # "idle") => prevArg[i] # NoSummary

\* C6: a chunk's extraction issues the initial call, then, only once that
\* call has answered, the corrective call on the chunk's text and the first
\* answer; it returns the corrective call's answer; it never issues a third
\* call, and none after a failed first call.
C6_TwoCallsInSequence ==
    \A i \in Chunks :
        /\ ncalls[i] <= 2
        /\ xpc[i] = "idle" => ncalls[i] = 0
        /\ xpc[i] = "call1" =>
              /\ ncalls[i] = 1
              /\ llmOut[i].first = Undefined
              /\ harArg[i] = Undefined
        /\ xpc[i] \in {"call2", "done"} =>
              /\ ncalls[i] = 2
              /\ llmOut[i].first \in AnalysisVals
              /\ harArg[i] = [text |-> Content(i), analysis |-> llmOut[i].first]
        /\ xpc[i] = "call2" => llmOut[i].refined = Undefined
        /\ xpc[i] = "done" =>
              /\ llmOut[i].refined \in AnalysisVals
              /\ ret[i] = [index |-> i, analysis |-> llmOut[i].refined]
        /\ (xpc[i] = "failed" /\ llmOut[i].first = Failure) =>
              /\ ncalls[i] = 1
              /\ harArg[i] = Undefined

\* C6 witness: an extraction returned after a corrective call whose answer
\* differs from the first one.
C6_Witness ==
    \E i \in Chunks :
        /\ xpc[i] = "done"
        /\ ncalls[i] = 2
        /\ llmOut[i].first # llmOut[i].refined
        /\ ret[i].analysis = llmOut[i].refined

\* ------------------------------------------------------- merge properties
\* The events of the input in chunk order and, in a chunk, event order.
RECURSIVE FlatEvents(_, _)
FlatEvents(list, k) ==
    IF k > Len(list) THEN << >> ELSE list[k].events \o FlatEvents(list, k + 1)

\* The global IDs of the counter values 1, 2, 3, ... written out.
IdTable == << "E001", "E002", "E003", "E004", "E005", "E006", "E007", "E008", "E009" >>

Ids(events) == { events[q].id : q \in DOMAIN events }

\* g is the global ID given to an event of chunk k whose local ID is x.
IsGlobalOf(k, x, g) ==
    \E p \in DOMAIN mergeInput[k].events :
        /\ mergeInput[k].events[p].id = x
        /\ \E q \in DOMAIN rawMerged.allEvents :
              /\ rawMerged.allEvents[q].summary = [chunk |-> k, pos |-> p]
              /\ rawMerged.allEvents[q].id = g

HasLocal(k, x) == \E p \in DOMAIN mergeInput[k].events : mergeInput[k].events[p].id = x

\* The relation of the input an emitted relation was made from.
SourceOf(r) == mergeInput[r.description.chunk].causalRelations[r.description.pos]

\* C7: mergeAnalyses emits one event per input event, in chunk order and
\* event order, the k-th carrying the ID of counter value k: the IDs are
\* pairwise distinct and are exactly those of 1..N.
C7_GlobalIdsGapFree ==
    mpc = "merged" =>
        LET input == FlatEvents(mergeInput, 1)
            out   == rawMerged.allEvents
        IN  /\ Len(out) = Len(input)
            /\ \A k \in DOMAIN out :
                  /\ out[k].id = IdTable[k]
                  /\ out[k].summary = input[k].summary
            /\ \A j, k \in DOMAIN out : out[j].id = out[k].id => j = k
            /\ Ids(out) = { IdTable[k] : k \in 1 .. Len(input) }

\* C7 witness: two chunks that both use the local ID E001 were merged into
\* three events, the last one numbered E003.
C7_Witness ==
    /\ mpc = "merged"
    /\ Len(mergeInput) = 2
    /\ HasLocal(1, "E001")
    /\ HasLocal(2, "E001")
    /\ Len(rawMerged.allEvents) = 3
    /\ rawMerged.allEvents[3].id = "E003"
    /\ rawMerged.allEvents[3].summary.chunk = 2

\* C8: every emitted relation has each endpoint that is a local event ID of
\* its own chunk rewritten to the global ID given to that chunk's event.
C8_RemappedThroughOwnChunk ==
    mpc = "merged" =>
        \A q \in DOMAIN rawMerged.allRelations :
            LET r   == rawMerged.allRelations[q]
                k   == r.description.chunk
                src == SourceOf(r)
            IN  /\ HasLocal(k, src.fromEventId) => IsGlobalOf(k, src.fromEventId, r.fromEventId)
                /\ HasLocal(k, src.toEventId) => IsGlobalOf(k, src.toEventId, r.toEventId)

\* C9: both endpoints of every emitted relation are IDs of emitted events,
\* and a relation with an endpoint that is no local event ID of its own
\* chunk is not emitted.
C9_EndpointsExistOrDropped ==
    mpc = "merged" =>
        /\ \A q \in DOMAIN rawMerged.allRelations :
              /\ rawMerged.allRelations[q].fromEventId \in Ids(rawMerged.allEvents)
              /\ rawMerged.allRelations[q].toEventId \in Ids(rawMerged.allEvents)
        /\ \A k \in DOMAIN mergeInput :
              \A p \in DOMAIN mergeInput[k].causalRelations :
                  LET src == mergeInput[k].causalRelations[p]
                  IN  (~HasLocal(k, src.fromEventId) \/ ~HasLocal(k, src.toEventId)) =>
                        ~\E q \in DOMAIN rawMerged.allRelations :
                            rawMerged.allRelations[q].description = src.description

\* C10: after the collapse map is applied, both endpoints of every relation
\* of the final graph are IDs of events of the final event list.
C10_EndpointsSurviveDedup ==
    mpc = "consolidated" =>
        \A q \in DOMAIN merged.allRelations :
            /\ merged.allRelations[q].fromEventId \in Ids(merged.allEvents)
            /\ merged.allRelations[q].toEventId \in Ids(merged.allEvents)


\* C11: in the graph merged by mergeAnalyses of modules/analyzer.ts every
\* character ID referenced by a chunk analysis or by an event is a key of
\* allCharacters.
C11_ReferencesResolve ==
    (mpc = "merged" /\ variant = "run") =>
        /\ \A k \in DOMAIN mergeInput : \A p \in DOMAIN mergeInput[k].characters :
              MapHas(rawMerged.allCharacters, mergeInput[k].characters[p].id)
        /\ \A q \in DOMAIN rawMerged.allEvents :
              \A j \in DOMAIN rawMerged.allEvents[q].characters :
                  MapHas(rawMerged.allCharacters, rawMerged.allEvents[q].characters[j])

\* C12: a generation failure of one task is isolated: the pipeline does not
\* fail with it but goes on to its next stage.
C12_FailureIsolated ==
    (\E i \in Chunks : xpc[i] = "failed" \/ dpc[i] = "failed") => stage # "failed"

\* C13: once a task has failed and runInParallel's overall result is the
\* failure, no further task is dispatched.
C13_NoDispatchAfterFailure ==
    [][promise = "rejected" => dispatched' = dispatched]_vars

\* The stage name the task closures of the extraction report under.
ExtractionStage == IF variant = "run" THEN "Parallel Mapping" ELSE "CEE (Extraction & HAR)"

\* C14: onProgress is called for every completed unit of work, and within a
\* stage the completed counts it receives never decrease.
C14_ProgressMonotone ==
    /\ \A i \in Chunks :
          /\ xpc[i] = "done" =>
                \E a \in DOMAIN progress :
                    progress[a].stage = ExtractionStage /\ progress[a].current = i + 1
          /\ dpc[i] = "done" =>
                \E a \in DOMAIN progress :
                    progress[a].stage = "Discovery" /\ progress[a].current = i + 1
    /\ \A a, b \in DOMAIN progress :
          (a < b /\ progress[a].stage = progress[b].stage)
              => progress[a].current <= progress[b].current

\* C15: a stage always terminates, with a result or a failure, even when a
\* generation call never answers.
C15_StageTerminates == <>(stage \in {"done", "failed"})

\* C16: no generation call is issued for a chunk whose analysis is cached,
\* and the chunks that are not cached are extracted.
C16_CachedChunksSkipped ==
    \A i \in Chunks :
        /\ cachedAnalyses[i] # Null => (dpc[i] = "idle" /\ ncalls[i] = 0)
        /\ (cachedAnalyses[i] = Null /\ stage = "done") => xpc[i] = "done"

\* C20: chunk("") returns the empty list.
C20_EmptyInputNoChunks ==
    (cpc = "done" /\ text = << >>) => textChunks = << >>

\* C20 witness: chunk was called on the empty text and has returned.
C20_Witness ==
    /\ cpc = "done"
    /\ text = << >>
    /\ chunker = "libs/chunker.ts"
    /\ textChunks = << >>

\* The chunks whose token count exceeds the limit.
Oversized == { k \in DOMAIN textChunks : textChunks[k].tokenCount > maxTokens }

\* Some sentence of the text alone exceeds the limit.
SentenceExceedsLimit ==
    LET paragraphs == SplitParagraphs(NormalizeNewlines(text))
    IN  \E p \in DOMAIN paragraphs :
            LET sentences == SplitSentences(paragraphs[p])
            IN  \E q \in DOMAIN sentences : CountTokens(sentences[q]) > maxTokens

\* C17: at most one chunk of a document exceeds maxTokens, and one does only
\* when a single sentence alone exceeds maxTokens.
C17_ChunksWithinLimit ==
    cpc = "done" =>
        /\ Cardinality(Oversized) <= 1
        /\ Oversized # {} => SentenceExceedsLimit

\* The part of a chunk's buffer that is not the overlap it was seeded with.
Core(b) == SubSeq(b.buffer, b.seedLen + 1, Len(b.buffer))

RECURSIVE ConcatCores(_, _)
ConcatCores(bs, k) == IF k > Len(bs) THEN << >> ELSE Core(bs[k]) \o ConcatCores(bs, k + 1)

NotSpace(c) == ~IsSpace(c)

\* C18: the non-overlap parts of the chunks of libs/chunker.ts, concatenated
\* in order, are the normalized source (compared up to white space, which
\* trim and the paragraph split change).
C18_NoContentLost ==
    (cpc = "done" /\ chunker = "libs/chunker.ts") =>
        SelectSeq(ConcatCores(buffers, 1), NotSpace)
            = SelectSeq(NormalizeNewlines(text), NotSpace)

\* The last n tokens of a text.
LastTokens(s, n) == Decode(SubSeq(Encode(s), Len(Encode(s)) - n + 1, Len(Encode(s))))

\* C19: a flush of a buffer of more than overlapTokens tokens seeds the next
\* buffer with exactly the last overlapTokens tokens of the flushed buffer,
\* and the next chunk's buffer begins with them.
C19_OverlapIsTail ==
    (cpc = "done" /\ chunker = "libs/chunker.ts") =>
        \A k \in DOMAIN buffers :
            (buffers[k].flushed /\ CountTokens(buffers[k].buffer) > overlapTokens) =>
                /\ buffers[k].overlap = LastTokens(buffers[k].buffer, overlapTokens)
                /\ k < Len(buffers) =>
                      /\ buffers[k + 1].seedLen = Len(buffers[k].overlap)
                      /\ SubSeq(buffers[k + 1].buffer, 1, buffers[k + 1].seedLen)
                            = buffers[k].overlap

\* C21: a non-empty document of fewer than overlapTokens tokens gives exactly
\* one chunk, which holds the whole document and no overlap prefix.
C21_ShortDocumentOneChunk ==
    (/\ cpc = "done"
     /\ chunker = "libs/chunker.ts"
     /\ Trim(text) # << >>
     /\ CountTokens(text) < overlapTokens) =>
        /\ Len(textChunks) = 1
        /\ buffers[1].seedLen = 0
        /\ SelectSeq(textChunks[1].content, NotSpace) = SelectSeq(text, NotSpace)

\* The locals of chunk() when its loop over the paragraphs has ended.
AfterParagraphs ==
    AddParagraphs(chunker, ChunkStart, SplitParagraphs(NormalizeNewlines(text)), 1,
                  maxTokens, overlapTokens)

\* a occurs in b.
IsInfix(a, b) == \E i \in 0 .. Len(b) - Len(a) : SubSeq(b, i + 1, i + Len(a)) = a

\* What the loop added to the last buffer after the overlap it was seeded with.
TrailingContent ==
    Trim(SubSeq(AfterParagraphs.currentContent, AfterParagraphs.seedLen + 1,
                Len(AfterParagraphs.currentContent)))

\* C22: a last buffer below the minimal length is not pushed as a chunk of its
\* own, and what it holds is in the last chunk returned.
C22_TrailingMerged ==
    (/\ cpc = "done"
     /\ chunker = "libs/chunker.ts"
     /\ Trim(AfterParagraphs.currentContent) # << >>
     /\ Len(AfterParagraphs.currentContent) <= MinLastLength) =>
        /\ Len(textChunks) = Len(AfterParagraphs.chunks)
        /\ textChunks # << >>
        /\ IsInfix(TrailingContent, textChunks[Len(textChunks)].content)

\* C23: three paragraphs of 50 tokens in all, chunked with maxTokens = 30 and
\* overlapTokens = 5, give exactly two chunks, and the second begins with the
\* last tokens of the first.
C23_ExampleTwoChunks ==
    (/\ cpc = "done"
     /\ maxTokens = 30
     /\ overlapTokens = 5
     /\ Len(SplitParagraphs(NormalizeNewlines(text))) = 3
     /\ CountTokens(text) \in {50, 54}) =>
        /\ Len(textChunks) = 2
        /\ buffers[2].seedLen > 0
        /\ SubSeq(buffers[2].buffer, 1, buffers[2].seedLen)
              = LastTokens(buffers[1].buffer, buffers[2].seedLen)

\* The extraction stage has returned its analyses: analyzeChunks returned, or
\* run() has filled analyses and gone on to the resolution.
ExtractionSucceeded == stage = "done" \/ (variant = "run" /\ stage = "resolution")

\* C24: when the extraction stage succeeds it gives one analysis per analysed
\* chunk, min(limit, number of chunks) of them without a hole, and entry i is
\* the analysis the extraction of chunk i produced, whatever the order in
\* which the extractions completed.
C24_OneAnalysisPerChunk ==
    ExtractionSucceeded =>
        /\ DOMAIN analyses = 0 .. (Min(limit, nChunks) - 1)
        /\ \A i \in DOMAIN analyses :
              /\ analyses[i] # Undefined
              /\ analyses[i] = ExtractReturn(llmOut[i].first, llmOut[i].refined)

\* C24 witness: run() on three chunks under two workers is done, chunk 1 was
\* extracted before chunk 0, the two gave different analyses, and each is in
\* its own slot.
C24_Witness ==
    /\ variant = "run"
    /\ stage = "done"
    /\ nChunks = 3
    /\ limit = 3
    /\ concurrency = 2
    /\ widx = << 0, 2 >>
    /\ llmOut[0].refined # llmOut[1].refined
    /\ \A i \in 0 .. 2 : analyses[i] = llmOut[i].refined

\* The descriptions the mentions give with the name nm, in mention order.
DescriptionsOf(nm) ==
    LET of == SelectSeq(rawDiscovered, LAMBDA item : item.name = nm)
    IN  [k \in DOMAIN of |-> of[k].description]

\* The first n distinct values of a list, in order.
FirstDistinct(list, n) ==
    LET first == { k \in DOMAIN list : \A j \in 1 .. (k - 1) : list[j] # list[k] }
        kept  == { k \in first : Cardinality({ j \in first : j < k }) < n }
    IN  SelectSeq([k \in DOMAIN list |-> IF k \in kept THEN list[k] ELSE ""],
                  LAMBDA d : d # "")

\* C25: the request resolveEntities sends has one bucket per distinct name
\* mentioned; a bucket holds only descriptions mentioned with its name, all
\* distinct, at most 5: the first 5 distinct ones in mention order.
C25_OneBucketPerName ==
    \A r \in DOMAIN requests :
        LET buckets == requests[r]
        IN  /\ \A k \in DOMAIN rawDiscovered :
                  Cardinality({ b \in DOMAIN buckets :
                                  buckets[b].name = rawDiscovered[k].name }) = 1
            /\ \A b \in DOMAIN buckets :
                  /\ \E k \in DOMAIN rawDiscovered : rawDiscovered[k].name = buckets[b].name
                  /\ Len(buckets[b].descriptions) <= SampleSize
                  /\ buckets[b].descriptions
                        = FirstDistinct(DescriptionsOf(buckets[b].name), SampleSize)

\* C25 witness: one name was mentioned with six different descriptions, and
\* the request holds its bucket with five of them.
C25_Witness ==
    /\ requests # << >>
    /\ \E b \in DOMAIN requests[1] :
          /\ Len(requests[1][b].descriptions) = SampleSize
          /\ Cardinality({ rawDiscovered[k].description : k \in
                { j \in DOMAIN rawDiscovered : rawDiscovered[j].name = requests[1][b].name } }) = 6

\* Some analysis of the run holds a discovered mention.
MentionDiscovered ==
    \E i \in DOMAIN analyses : analyses[i] # Undefined /\ analyses[i].discovered # << >>

AliasGroups(result) == { {c.name} \cup c.aliases : c \in result.characters }

C28_StagesInOrder ==
    \A i \in Chunks :
        xpc[i] # "idle" =>
            /\ variant = "analyzeChunks" => \A j \in Chunks : dpc[j] = "done"
            /\ charsArg[i] = Registry(globalCharacters)

\* The relations of the input one of whose endpoints is no event of their
\* own chunk, as << chunk, position >>.
DanglingRelations ==
    { kp \in UNION { {k} \X DOMAIN mergeInput[k].causalRelations : k \in DOMAIN mergeInput } :
        LET relation == mergeInput[kp[1]].causalRelations[kp[2]]
        IN  ~HasLocal(kp[1], relation.fromEventId) \/ ~HasLocal(kp[1], relation.toEventId) }

\* C29: when mergeAnalyses of modules/analyzer.ts meets relations with an
\* endpoint that is no event of their chunk, the merge still returns normally
\* with every event and every other relation, the dangling ones are dropped,
\* and a warning is recorded for each of them.
C29_DroppedWithWarning ==
    (variant = "run" /\ mpc # "input" /\ DanglingRelations # {}) =>
        /\ mpc = "merged"
        /\ Len(rawMerged.allEvents) = Len(FlatEvents(mergeInput, 1))
        /\ \A k \in DOMAIN mergeInput : \A p \in DOMAIN mergeInput[k].causalRelations :
              (<< k, p >> \notin DanglingRelations) <=>
                  \E q \in DOMAIN rawMerged.allRelations :
                      rawMerged.allRelations[q].description = [chunk |-> k, pos |-> p]
        /\ Len(warnings) >= Cardinality(DanglingRelations)

\* C30: when CharacterDesigner.run returns, the array holds one record per input
\* character, in input order; each record has the input character's id, name,
\* aliases, description and importance (and every other field it had) unchanged
\* and differs from it in visualTraits only, so no entity is added, removed or
\* given another identity.
C30_DesignerKeepsCharacters ==
    designState = "resolved" =>
        /\ Len(designed) = Len(designChars)
        /\ \A i \in DOMAIN designChars :
              /\ DOMAIN designed[i] = DOMAIN designChars[i] \cup {"visualTraits"}
              /\ \A f \in DOMAIN designChars[i] \ {"visualTraits"} :
                     designed[i][f] = designChars[i][f]
              /\ designed[i].visualTraits \in TraitsVals

\* Three different characters were designed, the tasks returned in another order
\* than the input's, and one of the characters had visualTraits before.
C30_Witness ==
    /\ designState = "resolved"
    /\ Len(designChars) = MaxDesigned
    /\ \A i, j \in DOMAIN designChars : i # j => designChars[i].id # designChars[j].id
    /\ designOrder[1] = Len(designChars)
    /\ \E i \in DOMAIN designChars : "visualTraits" \in DOMAIN designChars[i]

\* C31: in the batch loop of analyzeChunks, the first chunk i of every batch
\* after the first is extracted with the summary of the corrected analysis
\* stored for chunk i - 1, the last chunk of the batch before.
C31_BatchHeadGetsStoredSummary ==
    (variant = "analyzeChunks" /\ concurrency >= 1) =>
        \A i \in Chunks :
            (i > 0 /\ i % concurrency = 0 /\ xpc[i] # "idle") =>
                /\ llmOut[i - 1].refined \in AnalysisVals
                /\ analyses[i - 1] = llmOut[i - 1].refined
                /\ prevArg[i] = analyses[i - 1].summary

\* C31 witness: batches of two; chunk 2 opens the second batch, and the
\* corrected analysis of chunk 1 differs from its first analysis and from the
\* analysis of chunk 0.
C31_Witness ==
    /\ variant = "analyzeChunks"
    /\ concurrency = 2
    /\ NumToAnalyze = 3
    /\ xpc[2] = "call1"
    /\ llmOut[1].first # llmOut[1].refined
    /\ llmOut[0].refined # llmOut[1].refined
    /\ prevArg[2] = llmOut[1].refined.summary

\* The map sends the ID to a different ID: it holds for it a canonical ID (a
\* non-empty string) that is not the ID itself.
SentElsewhere(map, id) ==
    \E k \in DOMAIN map : map[k].key = id /\ map[k].value # "" /\ map[k].value # id

\* The place of the event of ID `id` in the event list.
PlaceOf(events, id) == CHOOSE p \in DOMAIN events : events[p].id = id

\* C32: once the deduplication map is applied, every event of the final list
\* is an event of the list before deduplication with the ID it had there, the
\* final events stand in the order they had there, and an event of the list
\* before deduplication is missing from the final list exactly when the map
\* sends its ID to a different ID.
C32_DedupKeepsIdsAndOrder ==
    mpc = "consolidated" =>
        /\ \A q \in DOMAIN merged.allEvents :
              \E p \in DOMAIN rawMerged.allEvents :
                  merged.allEvents[q] = rawMerged.allEvents[p]
        /\ \A q, r \in DOMAIN merged.allEvents :
              q < r => PlaceOf(rawMerged.allEvents, merged.allEvents[q].id)
                          < PlaceOf(rawMerged.allEvents, merged.allEvents[r].id)
        /\ \A p \in DOMAIN rawMerged.allEvents :
              (rawMerged.allEvents[p].id \notin Ids(merged.allEvents))
                  <=> SentElsewhere(eventIdMap, rawMerged.allEvents[p].id)

\* C32 witness: of three events the middle one is sent to the first and
\* removed, the first is sent to itself and the last is not in the map.
C32_Witness ==
    /\ mpc = "consolidated"
    /\ Len(rawMerged.allEvents) = 3
    /\ eventIdMap = << [key |-> "E001", value |-> "E001"],
                       [key |-> "E002", value |-> "E001"] >>
    /\ Len(merged.allEvents) = 2
    /\ merged.allEvents[1].id = "E001"
    /\ merged.allEvents[2].id = "E003"

\* C33: in the list chunk() returned, every chunk has startChar <= endChar,
\* endChar never decreases along the list, and every chunk after the first
\* starts at or before the end of the chunk before it.
C33_SpansOrderedGapFree ==
    cpc = "done" =>
        /\ \A k \in DOMAIN textChunks : textChunks[k].startChar <= textChunks[k].endChar
        /\ \A k \in DOMAIN textChunks :
              k > 1 => /\ textChunks[k - 1].endChar <= textChunks[k].endChar
                       /\ textChunks[k].startChar <= textChunks[k - 1].endChar

\* C33 witness: three chunks of libs/chunker.ts cut with an overlap, each
\* starting strictly inside the one before.
C33_Witness ==
    /\ cpc = "done"
    /\ chunker = "libs/chunker.ts"
    /\ overlapTokens > 0
    /\ Len(textChunks) >= 3
    /\ \A k \in 2 .. Len(textChunks) :
          /\ textChunks[k - 1].startChar < textChunks[k].startChar
          /\ textChunks[k].startChar < textChunks[k - 1].endChar

\* C34: a call of mergeAnalyses leaves its arguments as they were: every chunk
\* analysis keeps its events with their local IDs and its causal relations
\* with their local endpoints, and the character list is unchanged.
C34_MergeLeavesInputs ==
    [][mpc = "input" => (mergeInput' = mergeInput /\ globalCharacters' = globalCharacters)]_vars

\* C34 witness: mergeAnalyses returned a graph in which an event of the second
\* chunk and a relation of that chunk carry other IDs than in the input, the
\* input still carrying the local ones, and the character list is not empty.
C34_Witness ==
    /\ mpc = "merged"
    /\ Len(mergeInput) = 2
    /\ Len(globalCharacters) = 2
    /\ Len(mergeInput[1].events) = 1
    /\ Len(mergeInput[2].events) = 1
    /\ mergeInput[2].events[1].id = "E001"
    /\ rawMerged.allEvents[2].id = "E002"
    /\ Len(mergeInput[2].causalRelations) = 1
    /\ mergeInput[2].causalRelations[1].fromEventId = "E001"
    /\ \E q \in DOMAIN rawMerged.allRelations :
          /\ rawMerged.allRelations[q].description = mergeInput[2].causalRelations[1].description
          /\ rawMerged.allRelations[q].fromEventId = "E002"

\* A task of the runInParallel call failed: the worker awaiting it rejected.
SomeTaskFailed == \E w \in DOMAIN wpc : wpc[w] = "rejected"

\* Every task of the runInParallel call was started and has returned.
EveryTaskFinished ==
    \A i \in 0 .. (nTasks - 1) :
        IF variant = "run" THEN xpc[i] = "done" ELSE dpc[i] = "done"

\* C35: under a concurrency of at least 1, unless a task fails, a pending
\* runInParallel eventually resolves; whenever it is resolved every task has finished, no
\* worker is left awaiting and every slot 0..N-1 is filled; called on no task
\* it is resolved at once with an empty array.
C35_RunInParallelResolves ==
    /\ (promise = "pending" /\ concurrency >= 1) ~> (SomeTaskFailed \/ promise = "resolved")
    /\ [](( promise = "resolved" /\ concurrency >= 1) =>
              /\ EveryTaskFinished
              /\ Awaiting = {}
              /\ DOMAIN results = 0 .. (nTasks - 1)
              /\ \A i \in 0 .. (nTasks - 1) : results[i] # Undefined)
    /\ []((promise # "none" /\ nTasks = 0) => (promise = "resolved" /\ results = << >>))

\* C35 witness: three tasks under two workers all returned, the last one to
\* return being task 0, and runInParallel is resolved with its three slots
\* filled.
C35_Witness ==
    /\ promise = "resolved"
    /\ concurrency = 2
    /\ nTasks = 3
    /\ widx = << 0, 2 >>
    /\ EveryTaskFinished
    /\ \A i \in 0 .. 2 : results[i] # Undefined
    /\ ~SomeTaskFailed

\* The least number of batches of c chunks that hold len chunks.
CeilDiv(len, c) == (len + c - 1) \div c

\* C36: in analyzeChunks under a concurrency c of at least 1, the extraction
\* of chunk i is started in the batch that begins at index (i div c) * c and
\* is never started again; the batch loop, once entered, ends (unless an
\* extraction fails, by returning); and when analyzeChunks returns the loop
\* has run ceil(L / c) batches and every chunk 0..L-1 has been extracted and
\* stored.
C36_BatchLoopTerminates ==
    /\ [][(variant = "analyzeChunks" /\ concurrency >= 1) =>
             \A i \in Chunks :
                /\ (xpc[i] = "idle" /\ xpc'[i] # "idle") =>
                      /\ i < NumToAnalyze
                      /\ stage' = "extraction"
                      /\ batchBase' = (i \div concurrency) * concurrency
                      /\ i < Min(batchBase' + concurrency, NumToAnalyze)
                /\ (xpc[i] # "idle" /\ xpc[i] # "call1") => xpc'[i] # "call1"
                /\ ncalls'[i] >= ncalls[i]]_vars
    /\ []((variant = "analyzeChunks" /\ concurrency >= 1 /\ stage = "done") =>
             /\ batchBase = CeilDiv(NumToAnalyze, concurrency) * concurrency
             /\ \A i \in 0 .. (NumToAnalyze - 1) :
                   xpc[i] = "done" /\ ncalls[i] = 2 /\ analyses[i] = ret[i].analysis
             /\ \A i \in Chunks : i >= NumToAnalyze => xpc[i] = "idle")
    /\ (variant = "analyzeChunks" /\ concurrency >= 1 /\ stage = "extraction")
          ~> (stage = "done" \/ \E i \in Chunks : xpc[i] = "failed")

\* C36 witness: three chunks in batches of two: analyzeChunks returned after
\* two batches, the second holding the last chunk alone.
C36_Witness ==
    /\ variant = "analyzeChunks"
    /\ concurrency = 2
    /\ NumToAnalyze = 3
    /\ stage = "done"
    /\ batchBase = 4
    /\ \A i \in 0 .. 2 : xpc[i] = "done"

\* C37: called with a concurrency of 0 or less on a non-empty task list,
\* runInParallel creates no worker and is resolved in the step of the call
\* with no task started: no index taken, no generation call issued, and an
\* array of N slots, all of them empty.
C37_NoWorkerNoTask ==
    (stage # "init" /\ concurrency <= 0 /\ nTasks > 0) =>
        /\ wpc = << >>
        /\ promise = "resolved"
        /\ cursor = 0
        /\ dispatched = << >>
        /\ \A i \in Chunks : dpc[i] = "idle" /\ xpc[i] = "idle" /\ ncalls[i] = 0
        /\ DOMAIN results = 0 .. (nTasks - 1)
        /\ \A i \in 0 .. (nTasks - 1) : results[i] = Undefined

\* C37 witness: run() called on three chunks with a concurrency of -1.
C37_Witness ==
    /\ variant = "run"
    /\ stage # "init"
    /\ concurrency = -1
    /\ nTasks = 3
    /\ promise = "resolved"
    /\ results = [i \in 0 .. 2 |-> Undefined]

\* The last position of chunk k's events that carries the local ID x.
LastCarrying(k, x) ==
    CHOOSE p \in DOMAIN mergeInput[k].events :
        /\ mergeInput[k].events[p].id = x
        /\ \A p2 \in DOMAIN mergeInput[k].events :
              mergeInput[k].events[p2].id = x => p2 <= p

\* The global ID given to the event at position p of chunk k.
GlobalAt(k, p) ==
    rawMerged.allEvents[CHOOSE q \in DOMAIN rawMerged.allEvents :
                            rawMerged.allEvents[q].summary = [chunk |-> k, pos |-> p]].id

\* Chunk k has two events with the local ID x.
Repeated(k, x) ==
    \E p, p2 \in DOMAIN mergeInput[k].events :
        p # p2 /\ mergeInput[k].events[p].id = x /\ mergeInput[k].events[p2].id = x

\* C38: mergeAnalyses of modules/analyzer.ts gives two events of one chunk
\* that share a local ID two different global IDs, and every relation of the
\* chunk whose endpoints are local IDs of the chunk is emitted with each
\* endpoint rewritten to the global ID of the last event carrying that ID.
C38_RepeatedLocalIdLastWins ==
    (variant = "run" /\ mpc = "merged") =>
        /\ \A k \in DOMAIN mergeInput :
              \A p, p2 \in DOMAIN mergeInput[k].events :
                  p # p2 => GlobalAt(k, p) # GlobalAt(k, p2)
        /\ \A k \in DOMAIN mergeInput :
              \A p \in DOMAIN mergeInput[k].causalRelations :
                  LET src == mergeInput[k].causalRelations[p]
                  IN  (HasLocal(k, src.fromEventId) /\ HasLocal(k, src.toEventId)) =>
                          \E q \in DOMAIN rawMerged.allRelations :
                              /\ rawMerged.allRelations[q].description = src.description
                              /\ rawMerged.allRelations[q].fromEventId =
                                     GlobalAt(k, LastCarrying(k, src.fromEventId))
                              /\ rawMerged.allRelations[q].toEventId =
                                     GlobalAt(k, LastCarrying(k, src.toEventId))

\* C38 witness: a chunk whose first and second event both carry the local ID
\* E001, with a relation from E001, was merged; the relation starts at E002.
C38_Witness ==
    /\ variant = "run"
    /\ mpc = "merged"
    /\ Len(mergeInput) >= 1
    /\ Len(mergeInput[1].events) >= 2
    /\ mergeInput[1].events[1].id = "E001"
    /\ mergeInput[1].events[2].id = "E001"
    /\ Repeated(1, "E001")
    /\ Len(rawMerged.allRelations) = 1
    /\ mergeInput[1].causalRelations[1].fromEventId = "E001"
    /\ rawMerged.allRelations[1].fromEventId = GlobalAt(1, LastCarrying(1, "E001"))
    /\ rawMerged.allRelations[1].fromEventId # "E001"

\* The lists f[k], ..., f[n - 1] one after the other.
RECURSIVE InChunkOrder(_, _, _)
InChunkOrder(f, k, n) == IF k >= n THEN << >> ELSE f[k] \o InChunkOrder(f, k + 1, n)

\* The mentions the corrective calls answered, by chunk index.
MentionsAnswered ==
    InChunkOrder([i \in 0 .. (NumToAnalyze - 1) |-> llmOut[i].refined.discovered],
                 0, NumToAnalyze)

\* The names the discovery calls answered, by chunk index.
NamesAnswered == InChunkOrder([i \in Chunks |-> dret[i].characters], 0, nChunks)

\* s without the repetitions of an element that occurred before.
FirstOccurrences(s) ==
    LET keep == { k \in DOMAIN s : \A j \in 1 .. (k - 1) : s[j] # s[k] }
    IN  [p \in 1 .. Cardinality(keep) |->
            s[CHOOSE k \in keep : Cardinality({ j \in keep : j < k }) = p - 1]]

\* The position in progress of the report of chunk i's task, 0 when there is none.
ReportedAt(s, i) ==
    IF \E k \in DOMAIN progress : progress[k].stage = s /\ progress[k].current = i + 1
    THEN CHOOSE k \in DOMAIN progress : progress[k].stage = s /\ progress[k].current = i + 1
    ELSE 0

\* C39: with a concurrency of 1 or more, the mentions run() hands to the
\* resolution are those its corrective calls answered, in chunk order, and
\* the names discoverGlobalContext returns are the first occurrences of those
\* its discovery calls answered, in chunk order, whatever the order in which
\* the calls were answered.
C39_ListsInChunkOrder ==
    concurrency >= 1 =>
        /\ (variant = "run" /\ stage \in {"resolution", "done"}) =>
              /\ ConcatDiscovered(results, 0, nTasks) = MentionsAnswered
              /\ requests = IF MentionsAnswered = << >> THEN << >>
                            ELSE << AggregatedInputs(MentionsAnswered) >>
        /\ (variant = "analyzeChunks" /\ stage \in {"extraction", "done"}) =>
              globalCharacters = FirstOccurrences(NamesAnswered)

\* C39 witness: run() with two workers, the task of chunk 1 reported before
\* the task of chunk 0, has sent the mention of chunk 0 before that of chunk 1.
C39_Witness ==
    /\ variant = "run"
    /\ concurrency >= 2
    /\ NumToAnalyze >= 2
    /\ stage = "resolution"
    /\ ReportedAt("Parallel Mapping", 0) > ReportedAt("Parallel Mapping", 1)
    /\ ReportedAt("Parallel Mapping", 1) > 0
    /\ Len(requests) = 1
    /\ Len(requests[1]) >= 2
    /\ requests[1][1].name = ChunkName(0)
    /\ requests[1][2].name = ChunkName(1)

\* The discovery of chunk 1 answered before that of chunk 0, and the names
\* came out in chunk order.
NamesWitness ==
    /\ variant = "analyzeChunks"
    /\ concurrency >= 2
    /\ nChunks >= 2
    /\ stage \in {"extraction", "done"}
    /\ ReportedAt("Discovery", 0) > ReportedAt("Discovery", 1)
    /\ ReportedAt("Discovery", 1) > 0
    /\ globalCharacters[1] = ChunkName(0)
    /\ globalCharacters[2] = ChunkName(1)

\* C40: every chunk libs/chunker.ts emits after the first was pushed from a
\* buffer that holds source text after the overlap it started with.
C40_ChunkHasNewContent ==
    (cpc = "done" /\ chunker = "libs/chunker.ts") =>
        \A k \in 2 .. Len(buffers) : Len(buffers[k].buffer) > buffers[k].seedLen

====
